---- MODULE Spec2Model ----
(***************************************************************************)
(* Model of the routio TSP solver core: the genetic algorithm class GA     *)
(* (core/algorithms/ga) and the custom quickSort it sorts generations      *)
(* with.                                                                   *)
(*                                                                         *)
(* Conventions.                                                            *)
(*  - A chromosome string (ChromosomeStr, JSON.stringify of the gene       *)
(*    array) is modelled by the sequence of its genes: two strings are     *)
(*    equal iff the gene sequences are equal.  A chromosome (Set<number>)  *)
(*    is an insertion-ordered set: SetOf drops repeated genes, keeping     *)
(*    the first occurrence, as `new Set(array)` does.                      *)
(*  - JS arrays are 0-based, TLA+ sequences 1-based: array index i is      *)
(*    sequence index i + 1.  Genes, loci taken from random(), generation   *)
(*    numbers and history indices keep the 0-based values of the code.     *)
(*  - A fitness 1 / cost is the rational [num |-> 1, den |-> cost]; 1 / f  *)
(*    is den / num.  (Doubles round 1/(1/c) back to c for the integer      *)
(*    costs used here, all below 49.)                                      *)
(*  - An optional value (a config field that may be absent, a field of    *)
(*    this._solution before it is set, a nullable local) is the empty      *)
(*    sequence when undefined / null and <<v>> when it holds v.            *)
(***************************************************************************)
EXTENDS Integers, Sequences, FiniteSets, TLC

VARIABLES
    cfg,                  \* this.configs together with this.costTable
    pc,                   \* position inside solve()
    generationCount,      \* this._generationCount
    evaluatedPopulation,  \* solve's local: sequence of <<chromosomeStr, fitness>>
    lastGeneration,       \* the evaluated generation handed to _survivalSelection
    population,           \* _evolvePopulation's local Set, in insertion order
    solution,             \* this._solution
    registrations,        \* number of calls of _registerSolutionStats so far
    evolutions,           \* number of completed passes of the while loop of solve
    rejection,            \* the error solve's promise was rejected with, if any
    problem,              \* Broker._problem with its coordinate file and the provider's behaviour
    step,                 \* position inside new Broker(problem).exec(configs)
    inFlight,             \* the pairs whose provider request is issued and not yet answered
    costTable,            \* calculateCostTable's local array
    solverInput,          \* the (costTable, configs.dimension) the algorithm was constructed with
    brokerError,          \* the error the constructor threw or exec rejected with, if any
    initialPopulation,    \* _generateInitialPopulation's local Set, in insertion order
    randomPopulation,     \* the Set the running call of _generateRandomChrs is filling
    randomCount,          \* that call's argument count
    content,              \* the static instance file: its lines, each split into tokens
    lineNo,               \* the line parseTSPLIB's forEach handles next
    readingNodes,         \* parseTSPLIB's local flag
    readingEdges,         \* parseTSPLIB's local flag
    data,                 \* parseTSPLIB's local data: ITSPData
    sortInput,            \* the array quickSort is called with, as it was at the call
    sortArray,            \* quickSort's source, which the calls partition in place
    sortCalls,            \* the pending calls quickSort(source, left, right), innermost first
    sortResult            \* the array the outermost call returned, if it has returned

gaVars == <<cfg, pc, generationCount, evaluatedPopulation, lastGeneration,
            population, solution, registrations, evolutions, rejection>>

brokerVars == <<problem, step, inFlight, costTable, solverInput, brokerError>>

seedVars == <<initialPopulation, randomPopulation, randomCount>>

parserVars == <<content, lineNo, readingNodes, readingEdges, data>>

sortVars == <<sortInput, sortArray, sortCalls, sortResult>>

vars == <<cfg, pc, generationCount, evaluatedPopulation, lastGeneration,
          population, solution, registrations, evolutions, rejection,
          problem, step, inFlight, costTable, solverInput, brokerError,
          initialPopulation, randomPopulation, randomCount,
          content, lineNo, readingNodes, readingEdges, data,
          sortInput, sortArray, sortCalls, sortResult>>

\* the seeding loops have not been entered
SeedIdle == initialPopulation = <<>> /\ randomPopulation = <<>> /\ randomCount = 0

\* no static instance file is being read
ParserIdle ==
    /\ content = <<>>
    /\ lineNo = 0
    /\ readingNodes = FALSE
    /\ readingEdges = FALSE
    /\ data = <<>>

\* quickSort is not being followed call by call
SortIdle == sortInput = <<>> /\ sortArray = <<>> /\ sortCalls = <<>> /\ sortResult = <<>>

Undefined == <<>>

Some(v) == <<v>>

\* a ?? d
Coalesce(a, d) == IF a = Undefined THEN d ELSE a[1]

\* !a for an optional number: undefined, null and 0 are falsy
Falsy(a) == a = Undefined \/ a[1] = 0

\* a || d for an optional number
OrElse(a, d) == IF Falsy(a) THEN d ELSE a[1]

\* raise(message, statusCode) with a status code: an AppError
AppError(statusCode, message) == [statusCode |-> Some(statusCode), message |-> message]

\* raise(message) without a status code: a plain Error
PlainError(message) == [statusCode |-> Undefined, message |-> message]

-----------------------------------------------------------------------------
(* Program constants: core/algorithms/ga/constants.ts *)

POPULATION_SIZE == 100
NNA_POPULATION_PERCENTAGE == 40
MAX_GENERATION_COUNT == 1000
MAX_CHROMOSOME_AGE == 250
MUTATION_RATE == 2
ELITE_COUNT == 2

-----------------------------------------------------------------------------
(* Bounds of the model *)

\* maxGens of the large problems ranges over 0 .. MaxGensBound
MaxGensBound == 2

-----------------------------------------------------------------------------
(* Generic helpers *)

Range(s) == {s[i] : i \in DOMAIN s}

Min(a, b) == IF a < b THEN a ELSE b

\* the position (1-based) of the first occurrence of x in s, 0 if absent
RECURSIVE IndexFrom(_, _, _)
IndexFrom(s, x, i) ==
    IF i > Len(s) THEN 0
    ELSE IF s[i] = x THEN i
    ELSE IndexFrom(s, x, i + 1)

\* new Set(array): insertion order, repeated members dropped
RECURSIVE SetOfFrom(_, _, _)
SetOfFrom(s, i, acc) ==
    IF i > Len(s) THEN acc
    ELSE SetOfFrom(s, i + 1, IF s[i] \in Range(acc) THEN acc ELSE Append(acc, s[i]))

SetOf(s) == SetOfFrom(s, 1, <<>>)

\* all sequences of k distinct members of S
RECURSIVE InjSeqs(_, _)
InjSeqs(S, k) ==
    IF k = 0 THEN {<<>>}
    ELSE UNION {{Append(s, x) : x \in S \ Range(s)} : s \in InjSeqs(S, k - 1)}

\* Math.trunc(a / b) and Math.round(a / b) for a >= 0, b > 0
TruncDiv(a, b) == a \div b

RoundDiv(a, b) == (2 * a + b) \div (2 * b)

\* utils/general.ts: fact
RECURSIVE fact(_)
fact(num) == IF num = 0 \/ num = 1 THEN 1 ELSE num * fact(num - 1)

\* utils/general.ts: random(min, max), the set of values it can return
random(min, max) == min .. max

-----------------------------------------------------------------------------
(* Conversions between chromosome strings and chromosomes *)

chrToStr(chromosome) == chromosome

strToChr(chromosomeStr) == SetOf(chromosomeStr)

-----------------------------------------------------------------------------
(* Cost tables: rows [origin, dest, cost] in row-major order *)

TableOf(rows) ==
    LET n == Len(rows) IN
    [k \in 1 .. n * n |->
        <<(k - 1) \div n, (k - 1) % n, rows[((k - 1) \div n) + 1][((k - 1) % n) + 1]>>]

\* the symmetric 4-node matrix and the asymmetric 3-node matrix
Symmetric4 == TableOf(<< <<0, 1, 2, 3>>, <<1, 0, 1, 2>>, <<2, 1, 0, 1>>, <<3, 2, 1, 0>> >>)

Asymmetric3 == TableOf(<< <<0, 10, 15>>, <<20, 0, 5>>, <<8, 12, 0>> >>)

-----------------------------------------------------------------------------
(* GA constructor: the values derived from the configs *)

isOriginFixed ==
    ~Falsy(cfg.fixedOriginIndex) \/ cfg.fixedOriginIndex = Some(0)

defaultPopulationMaxSize == OrElse(cfg.populationSize, POPULATION_SIZE)

dimensionBasedPopulationSize ==
    IF isOriginFixed THEN fact(cfg.dimension - 1) ELSE fact(cfg.dimension)

populationSize ==
    IF dimensionBasedPopulationSize > defaultPopulationMaxSize
    THEN defaultPopulationMaxSize
    ELSE dimensionBasedPopulationSize

\* variant: a permutation space equal to the configured size counts as large
isProblemLarge_inclusive == dimensionBasedPopulationSize >= defaultPopulationMaxSize

isProblemLarge == dimensionBasedPopulationSize > defaultPopulationMaxSize

returnToOrigin == Coalesce(cfg.returnToOrigin, TRUE)

\* variant: a pool of no chromosome is allowed
mutationCount_mayBeZero ==
    TruncDiv(populationSize * Coalesce(cfg.mutationRate, MUTATION_RATE), 100)

mutationCount ==
    LET count == TruncDiv(populationSize * Coalesce(cfg.mutationRate, MUTATION_RATE), 100)
    IN  IF count = 0 THEN 1 ELSE count

eliteCount == OrElse(cfg.eliteCount, ELITE_COUNT)

maxGens == Coalesce(cfg.maxGens, MAX_GENERATION_COUNT)

maxChromosomeAge == Coalesce(cfg.maxChrAge, MAX_CHROMOSOME_AGE)

-----------------------------------------------------------------------------
(* Evaluator *)

\* GA._getRouteCost
getRouteCost(originIndex, destIndex) ==
    cfg.costTable[(originIndex * cfg.dimension + destIndex) + 1][3]

\* the loop of _evaluateChromosomeFitness over the genes from position i on
RECURSIVE PathCost(_, _)
PathCost(chromosome, i) ==
    IF i >= Len(chromosome) THEN 0
    ELSE getRouteCost(chromosome[i], chromosome[i + 1]) + PathCost(chromosome, i + 1)

\* variant: only firstGene is tested before the closing edge is added
evaluateChromosomeFitness_firstGeneOnly(chromosome) ==
    LET cost == PathCost(chromosome, 1)
    IN  [num |-> 1,
         den |-> IF returnToOrigin /\ Len(chromosome) > 0 /\ chromosome[1] # 0
                 THEN cost + getRouteCost(chromosome[Len(chromosome)], chromosome[1])
                 ELSE cost]

\* GA._evaluateChromosomeFitness; firstGene and lastGene are tested for
\* truthiness, so a gene 0 at either end counts as absent
evaluateChromosomeFitness(chromosome) ==
    LET firstGene == IF Len(chromosome) = 0 THEN Undefined ELSE Some(chromosome[1])
        lastGene  == IF Len(chromosome) = 0 THEN Undefined
                     ELSE Some(chromosome[Len(chromosome)])
        cost      == PathCost(chromosome, 1)
    IN  [num |-> 1,
         den |-> IF returnToOrigin /\ ~Falsy(firstGene) /\ ~Falsy(lastGene)
                 THEN cost + getRouteCost(lastGene[1], firstGene[1])
                 ELSE cost]

\* GA._evaluatePopulationFitness: a Map in the insertion order of the population
evaluatePopulationFitness(pop) ==
    [i \in 1 .. Len(pop) |-> <<pop[i], evaluateChromosomeFitness(strToChr(pop[i]))>>]

\* f < g and f > g on fitness values
FitnessLess(f, g) == f.num * g.den < g.num * f.den

\* 1 / fitness
CostOf(fitness) == fitness.den \div fitness.num

-----------------------------------------------------------------------------
(* quickSort.ts: ascending by fitness; positions are 1-based here *)

\* choosePivot
choosePivot(source, left, right) ==
    LET mid == (left + right) \div 2
        l == source[left][2]
        m == source[mid][2]
        r == source[right][2]
    IN  IF FitnessLess(l, m)
        THEN IF FitnessLess(m, r) THEN mid
             ELSE IF FitnessLess(l, r) THEN right ELSE left
        ELSE IF FitnessLess(m, r)
             THEN IF FitnessLess(l, r) THEN left ELSE right
             ELSE mid

\* while (source[left][1] < pivot) left++
RECURSIVE ScanLeft(_, _, _)
ScanLeft(source, left, pivot) ==
    IF FitnessLess(source[left][2], pivot) THEN ScanLeft(source, left + 1, pivot)
    ELSE left

\* while (source[right][1] > pivot) right--
RECURSIVE ScanRight(_, _, _)
ScanRight(source, right, pivot) ==
    IF FitnessLess(pivot, source[right][2]) THEN ScanRight(source, right - 1, pivot)
    ELSE right

\* variant: partition finds the pair to exchange and leaves it in place
Swap_none(source, i, j) == source

\* [source[left], source[right]] = [source[right], source[left]]
Swap(source, i, j) ==
    [k \in DOMAIN source |->
        IF k = i THEN source[j] ELSE IF k = j THEN source[i] ELSE source[k]]

\* the outer while (left <= right) of partition
RECURSIVE PartitionLoop(_, _, _, _)
PartitionLoop(source, left, right, pivot) ==
    IF left <= right
    THEN LET l == ScanLeft(source, left, pivot)
             r == ScanRight(source, right, pivot)
         IN  IF l <= r
             THEN PartitionLoop(Swap(source, l, r), l + 1, r - 1, pivot)
             ELSE PartitionLoop(source, l, r, pivot)
    ELSE [source |-> source, index |-> left]

\* partition: the array after partitioning and the partition point
partition(source, left, right) ==
    PartitionLoop(source, left, right, source[choosePivot(source, left, right)][2])

RECURSIVE quickSortRange(_, _, _)
quickSortRange(source, left, right) ==
    IF Len(source) > 1
    THEN LET p  == partition(source, left, right)
             s1 == IF left < p.index - 1
                   THEN quickSortRange(p.source, left, p.index - 1)
                   ELSE p.source
         IN  IF p.index < right THEN quickSortRange(s1, p.index, right) ELSE s1
    ELSE source

\* quickSort(source) with the default left = 0, right = source.length - 1
quickSort(source) == quickSortRange(source, 1, Len(source))

-----------------------------------------------------------------------------
(* Population seeding *)

\* the fixed origin as the first gene, if one is configured
OriginPrefix == IF isOriginFixed THEN <<cfg.fixedOriginIndex[1]>> ELSE <<>>

\* _getCostTableBoundaries: [firstRouteIndex, lastRouteIndex] (0-based)
getCostTableBoundaries(node) ==
    <<node * cfg.dimension, node * cfg.dimension + cfg.dimension>>

\* the for loop of _generateNnaChrs over the routes of the last gene's row;
\* a nearestNeighborCost of 0 is falsy and counts as uninitialised
RECURSIVE NnaScan(_, _, _, _, _)
NnaScan(chromosome, route, lastRouteIndex, nearestNeighborCost, nextGeneCandidate) ==
    IF route >= lastRouteIndex THEN nextGeneCandidate
    ELSE LET origin == cfg.costTable[route + 1][1]
             dest   == cfg.costTable[route + 1][2]
             cost   == cfg.costTable[route + 1][3]
             isNeighborUnvisited == dest \notin Range(chromosome)
             isNearestNeighborUninitialized == Falsy(nearestNeighborCost)
             isCurrentCostLower ==
                 ~Falsy(nearestNeighborCost) /\ cost < nearestNeighborCost[1]
         IN  IF origin = dest
             THEN NnaScan(chromosome, route + 1, lastRouteIndex,
                          nearestNeighborCost, nextGeneCandidate)
             ELSE IF (isNearestNeighborUninitialized \/ isCurrentCostLower)
                     /\ isNeighborUnvisited
             THEN NnaScan(chromosome, route + 1, lastRouteIndex, Some(cost), Some(dest))
             ELSE NnaScan(chromosome, route + 1, lastRouteIndex,
                          nearestNeighborCost, nextGeneCandidate)

\* while (chromosome.size < dimension): append the nearest unvisited neighbour
RECURSIVE NnaFill(_)
NnaFill(chromosome) ==
    IF Len(chromosome) >= cfg.dimension THEN chromosome
    ELSE LET b == getCostTableBoundaries(chromosome[Len(chromosome)])
         IN  NnaFill(Append(chromosome,
                 NnaScan(chromosome, b[1], b[2], Undefined, Undefined)[1]))

\* one NNA chromosome, from the random unvisited start node
NnaChr(randomNode) == chrToStr(NnaFill(Append(OriginPrefix, randomNode)))

\* the chromosomes one pass of the while loop of _generateNnaChrs can build
NnaChrs ==
    {NnaChr(randomNode) : randomNode \in random(0, cfg.dimension - 1) \ Range(OriginPrefix)}

\* _generateNnaChrs(count): the populations it can return, in insertion order
generateNnaChrs(count) == InjSeqs(NnaChrs, count)

\* the chromosomes one pass of the while loop of _generateRandomChrs can build
RandomChrs ==
    {chrToStr(OriginPrefix \o rest) :
        rest \in InjSeqs(random(0, cfg.dimension - 1) \ Range(OriginPrefix),
                         cfg.dimension - Len(OriginPrefix))}

\* _generateInitialPopulation: the populations it can return.  The NNA
\* chromosomes come first; the while loop then adds random chromosomes that
\* are not yet present until the population holds populationSize of them.
generateInitialPopulation ==
    LET nnaChrMaxCount == IF isOriginFixed THEN cfg.dimension - 1 ELSE cfg.dimension
        nnaPopulationPercentage == Coalesce(cfg.nnaPercentage, NNA_POPULATION_PERCENTAGE)
        nnaCount == RoundDiv(nnaPopulationPercentage * populationSize, 100)
        nnaChrCount == IF nnaCount > nnaChrMaxCount THEN nnaChrMaxCount ELSE nnaCount
    IN  UNION {{initial \o rnd :
                   rnd \in InjSeqs(RandomChrs \ Range(initial), populationSize - nnaChrCount)} :
               initial \in generateNnaChrs(nnaChrCount)}

-----------------------------------------------------------------------------
(* Statistics and termination *)

NoSolution ==
    [generations |-> Undefined, solution |-> Undefined,
     bestCost |-> Undefined, bestCostGeneration |-> Undefined,
     worstCost |-> Undefined, worstCostGeneration |-> Undefined,
     bestCostHistory |-> <<>>, worstCostHistory |-> <<>>]

\* variant: the tour is recorded at the first registration only
registerSolutionStats_staleSolution(sol, pop, count) ==
    LET sortedPopulation == quickSort(pop)
        bestChromosome  == sortedPopulation[Len(sortedPopulation)]
        worstChromosome == sortedPopulation[1]
        bestCost  == CostOf(bestChromosome[2])
        worstCost == CostOf(worstChromosome[2])
        newBest  == Falsy(sol.bestCost) \/ sol.bestCost[1] > bestCost
        newWorst == Falsy(sol.worstCost) \/ sol.worstCost[1] < worstCost
    IN  [generations         |-> Some(count),
         solution            |-> IF Falsy(sol.bestCost) THEN Some(bestChromosome[1])
                                 ELSE sol.solution,
         bestCost            |-> IF newBest THEN Some(bestCost) ELSE sol.bestCost,
         bestCostGeneration  |-> IF newBest THEN Some(count) ELSE sol.bestCostGeneration,
         worstCost           |-> IF newWorst THEN Some(worstCost) ELSE sol.worstCost,
         worstCostGeneration |-> IF newWorst THEN Some(count) ELSE sol.worstCostGeneration,
         bestCostHistory     |-> Append(sol.bestCostHistory, bestCost),
         worstCostHistory    |-> Append(sol.worstCostHistory, worstCost)]

\* variant: an equal cost also moves the record
registerSolutionStats_onEqual(sol, pop, count) ==
    LET sortedPopulation == quickSort(pop)
        bestChromosome  == sortedPopulation[Len(sortedPopulation)]
        worstChromosome == sortedPopulation[1]
        bestCost  == CostOf(bestChromosome[2])
        worstCost == CostOf(worstChromosome[2])
        newBest  == Falsy(sol.bestCost) \/ sol.bestCost[1] >= bestCost
        newWorst == Falsy(sol.worstCost) \/ sol.worstCost[1] <= worstCost
    IN  [generations         |-> Some(count),
         solution            |-> IF newBest THEN Some(bestChromosome[1]) ELSE sol.solution,
         bestCost            |-> IF newBest THEN Some(bestCost) ELSE sol.bestCost,
         bestCostGeneration  |-> IF newBest THEN Some(count) ELSE sol.bestCostGeneration,
         worstCost           |-> IF newWorst THEN Some(worstCost) ELSE sol.worstCost,
         worstCostGeneration |-> IF newWorst THEN Some(count) ELSE sol.worstCostGeneration,
         bestCostHistory     |-> Append(sol.bestCostHistory, bestCost),
         worstCostHistory    |-> Append(sol.worstCostHistory, worstCost)]

\* variant: bestCost and worstCost are overwritten with the costs of the
\* generation being registered
registerSolutionStats_latest(sol, pop, count) ==
    LET sortedPopulation == quickSort(pop)
        bestChromosome  == sortedPopulation[Len(sortedPopulation)]
        worstChromosome == sortedPopulation[1]
    IN  [generations         |-> Some(count),
         solution            |-> Some(bestChromosome[1]),
         bestCost            |-> Some(CostOf(bestChromosome[2])),
         bestCostGeneration  |-> Some(count),
         worstCost           |-> Some(CostOf(worstChromosome[2])),
         worstCostGeneration |-> Some(count),
         bestCostHistory     |-> Append(sol.bestCostHistory, CostOf(bestChromosome[2])),
         worstCostHistory    |-> Append(sol.worstCostHistory, CostOf(worstChromosome[2]))]

\* GA._registerSolutionStats: this._solution after registering `pop` at
\* generation count `count`
registerSolutionStats(sol, pop, count) ==
    LET sortedPopulation == quickSort(pop)
        bestChromosome  == sortedPopulation[Len(sortedPopulation)]
        worstChromosome == sortedPopulation[1]
        bestCost  == CostOf(bestChromosome[2])
        worstCost == CostOf(worstChromosome[2])
        newBest  == Falsy(sol.bestCost) \/ sol.bestCost[1] > bestCost
        newWorst == Falsy(sol.worstCost) \/ sol.worstCost[1] < worstCost
    IN  [generations         |-> Some(count),
         solution            |-> IF newBest THEN Some(bestChromosome[1]) ELSE sol.solution,
         bestCost            |-> IF newBest THEN Some(bestCost) ELSE sol.bestCost,
         bestCostGeneration  |-> IF newBest THEN Some(count) ELSE sol.bestCostGeneration,
         worstCost           |-> IF newWorst THEN Some(worstCost) ELSE sol.worstCost,
         worstCostGeneration |-> IF newWorst THEN Some(count) ELSE sol.worstCostGeneration,
         bestCostHistory     |-> Append(sol.bestCostHistory, bestCost),
         worstCostHistory    |-> Append(sol.worstCostHistory, worstCost)]

\* variant: the generation limit lets one more generation through
hasEndingConditionsMet_oneMore ==
    \/ generationCount > maxGens + 1
    \/ /\ ~Falsy(solution.bestCostGeneration)
       /\ generationCount - solution.bestCostGeneration[1] > maxChromosomeAge
    \/ ~isProblemLarge

\* variant: the generation limit is reached one generation early
hasEndingConditionsMet_offByOne ==
    \/ generationCount >= maxGens
    \/ /\ ~Falsy(solution.bestCostGeneration)
       /\ generationCount - solution.bestCostGeneration[1] > maxChromosomeAge
    \/ ~isProblemLarge

\* GA._hasEndingConditionsMet
hasEndingConditionsMet ==
    \/ generationCount > maxGens
    \/ /\ ~Falsy(solution.bestCostGeneration)
       /\ generationCount - solution.bestCostGeneration[1] > maxChromosomeAge
    \/ ~isProblemLarge

-----------------------------------------------------------------------------
(* Arrays, Sets and Maps of the runtime *)

Max(a, b) == IF a > b THEN a ELSE b

Reverse(s) == [i \in 1 .. Len(s) |-> s[Len(s) + 1 - i]]

\* array.slice(begin, end) for 0 <= begin
Slice(array, begin, end) == SubSeq(array, begin + 1, Min(end, Len(array)))

\* array.splice(start, deleteCount, ...items): the array afterwards
Splice(array, start, deleteCount, items) ==
    LET from == IF start < 0 THEN Max(Len(array) + start, 0) ELSE Min(start, Len(array))
        count == Min(Max(deleteCount, 0), Len(array) - from)
    IN  SubSeq(array, 1, from) \o items \o SubSeq(array, from + count + 1, Len(array))

\* array.filter(x => !excluded.includes(x))
RECURSIVE FilterOut(_, _)
FilterOut(array, excluded) ==
    IF array = <<>> THEN <<>>
    ELSE IF Head(array) \in Range(excluded) THEN FilterOut(Tail(array), excluded)
    ELSE <<Head(array)>> \o FilterOut(Tail(array), excluded)

\* set.add(x) on an insertion-ordered Set
SetAdd(set, x) == IF x \in Range(set) THEN set ELSE Append(set, x)

\* the keys of a Map given as a sequence of entries
Keys(entries) == {entries[i][1] : i \in DOMAIN entries}

\* new Map(entries): a key keeps the place of its first entry and the value
\* of its last
RECURSIVE MapOfFrom(_, _, _)
MapOfFrom(entries, i, acc) ==
    IF i > Len(entries) THEN acc
    ELSE LET at == IndexFrom([k \in DOMAIN acc |-> acc[k][1]], entries[i][1], 1)
         IN  MapOfFrom(entries, i + 1,
                 IF at = 0 THEN Append(acc, entries[i])
                 ELSE [acc EXCEPT ![at] = entries[i]])

MapOf(entries) == MapOfFrom(entries, 1, <<>>)

\* ascending insertion sort of a sequence of numbers: [...set].sort((a, b) => a - b)
RECURSIVE SortAscending(_)
SortAscending(s) ==
    IF s = <<>> THEN <<>>
    ELSE LET rest == SortAscending(Tail(s))
             k == Cardinality({i \in DOMAIN rest : rest[i] < Head(s)})
         IN  SubSeq(rest, 1, k) \o <<Head(s)>> \o SubSeq(rest, k + 1, Len(rest))

-----------------------------------------------------------------------------
(* Selection *)

\* GA._randomSelection: the chromosomes it can return (population.size >= 2)
randomSelection(pop) ==
    {pop[randomChromosomeIndex + 1][1] : randomChromosomeIndex \in random(0, Len(pop) - 1)}

\* selectChromosome(index) for the indices Math.random() * totalFitness can
\* take, 0 <= index < totalFitness: the first entry is returned for index 0,
\* and any other entry for an index in (accumulator before it, accumulator
\* with it], which is not empty iff its fitness is positive
selectChromosome(pop) ==
    {pop[k][1] : k \in {i \in DOMAIN pop : i = 1 \/ FitnessLess([num |-> 0, den |-> 1], pop[i][2])}}

\* variant: two draws are taken, whatever they return
rouletteWheelSelection_twoDraws(pop) ==
    {<<a, b>> : a \in selectChromosome(pop), b \in selectChromosome(pop)}

\* GA._rouletteWheelSelection: the couples it can return, in insertion order
rouletteWheelSelection(pop) ==
    {<<a, b>> : a \in selectChromosome(pop), b \in selectChromosome(pop)} \
        {<<a, a>> : a \in selectChromosome(pop)}

-----------------------------------------------------------------------------
(* Variation *)

\* variant: the fixed origin is not excluded from the loci
FirstFreeLocus_ignoringOrigin == IF isOriginFixed THEN 0 ELSE 0

\* the lowest locus mutation and crossover may touch
FirstFreeLocus == IF isOriginFixed THEN 1 ELSE 0

\* variant: the part between the loci is displaced without being inverted
mutate_noInversion(chromosomeStr, firstDraw, lastDraw, displacementPosition) ==
    LET chromosome == strToChr(chromosomeStr)
        firstLocus == Min(firstDraw, lastDraw)
        lastLocus  == Max(firstDraw, lastDraw)
        displacedPart == Slice(chromosome, firstLocus, lastLocus + 1)
        chromosomeArray == FilterOut(chromosome, displacedPart)
    IN  chrToStr(SetOf(Splice(chromosomeArray, displacementPosition, 0, displacedPart)))

\* GA._mutate with the draws of the two loci and, after the inverted part is
\* taken out, of the displacement position
mutate(chromosomeStr, firstDraw, lastDraw, displacementPosition) ==
    LET chromosome == strToChr(chromosomeStr)
        firstLocus == Min(firstDraw, lastDraw)
        lastLocus  == Max(firstDraw, lastDraw)
        invertedPart == Reverse(Slice(chromosome, firstLocus, lastLocus + 1))
        chromosomeArray == FilterOut(chromosome, invertedPart)
    IN  chrToStr(SetOf(Splice(chromosomeArray, displacementPosition, 0, invertedPart)))

\* the gene-count check of _mutate: true iff it throws
mutateThrows(chromosomeStr, firstDraw, lastDraw, displacementPosition) ==
    LET chromosome == strToChr(chromosomeStr)
        invertedPart == Reverse(Slice(chromosome, Min(firstDraw, lastDraw),
                                      Max(firstDraw, lastDraw) + 1))
        chromosomeArray == Splice(FilterOut(chromosome, invertedPart),
                                  displacementPosition, 0, invertedPart)
    IN  Len(chromosomeArray) # Len(chromosome)

\* the displacement positions _mutate can draw for the two loci
displacementPositions(chromosomeStr, firstDraw, lastDraw) ==
    LET chromosome == strToChr(chromosomeStr)
        invertedPart == Slice(chromosome, Min(firstDraw, lastDraw), Max(firstDraw, lastDraw) + 1)
    IN  random(FirstFreeLocus, Len(FilterOut(chromosome, invertedPart)))

Hole == 0 - 1

\* offspring.splice(offspring.indexOf(gene), 1, -1)
PunchHole(offspring, gene) ==
    Splice(offspring, IndexFrom(offspring, gene, 1) - 1, 1, <<Hole>>)

\* the first for loop of _mate over selectedLoci from position i on
RECURSIVE PunchHoles(_, _, _, _)
PunchHoles(offspring, otherParent, selectedLoci, i) ==
    IF i > Len(selectedLoci) THEN offspring
    ELSE PunchHoles(PunchHole(offspring, otherParent[selectedLoci[i] + 1]),
                    otherParent, selectedLoci, i + 1)

\* the inner for loop of _mate: the first hole takes the gene
FillFirstHole(offspring, gene) ==
    LET at == IndexFrom(offspring, Hole, 1)
    IN  IF at = 0 THEN offspring ELSE [offspring EXCEPT ![at] = gene]

\* the second for loop of _mate over sortedSelectedLoci from position i on
RECURSIVE FillHoles(_, _, _, _)
FillHoles(offspring, otherParent, sortedSelectedLoci, i) ==
    IF i > Len(sortedSelectedLoci) THEN offspring
    ELSE FillHoles(FillFirstHole(offspring, otherParent[sortedSelectedLoci[i] + 1]),
                   otherParent, sortedSelectedLoci, i + 1)

\* the loci _mate can select, in the order it draws them
lociSelections ==
    LET maxLocusSelectionCount == IF isOriginFixed THEN cfg.dimension - 1 ELSE cfg.dimension
    IN  UNION {InjSeqs(random(FirstFreeLocus, cfg.dimension - 1), locusSelectionCount) :
                  locusSelectionCount \in random(1, maxLocusSelectionCount)}

\* the genes of `otherParent` copied over `offspring` at the selected loci
RECURSIVE CopyLoci(_, _, _, _)
CopyLoci(offspring, otherParent, selectedLoci, i) ==
    IF i > Len(selectedLoci) THEN offspring
    ELSE CopyLoci([offspring EXCEPT ![selectedLoci[i] + 1] = otherParent[selectedLoci[i] + 1]],
                  otherParent, selectedLoci, i + 1)

\* variant: the selected loci are copied from the other parent in place
mate_copyInPlace(parents, selectedLoci) ==
    LET parentA == strToChr(parents[1])
        parentB == strToChr(parents[2])
    IN  SetOf(<<chrToStr(CopyLoci(parentA, parentB, selectedLoci, 1)),
                chrToStr(CopyLoci(parentB, parentA, selectedLoci, 1))>>)

\* variant: the holes are filled in the order the loci were drawn
mate_drawOrder(parents, selectedLoci) ==
    LET parentA == strToChr(parents[1])
        parentB == strToChr(parents[2])
    IN  SetOf(<<chrToStr(FillHoles(PunchHoles(parentA, parentB, selectedLoci, 1),
                                   parentB, selectedLoci, 1)),
                chrToStr(FillHoles(PunchHoles(parentB, parentA, selectedLoci, 1),
                                   parentA, selectedLoci, 1))>>)

\* GA._mate for the couple <<parentA, parentB>> and the selected loci: the
\* Set of offspring, in insertion order
mate(parents, selectedLoci) ==
    LET parentA == strToChr(parents[1])
        parentB == strToChr(parents[2])
        sortedSelectedLoci == SortAscending(selectedLoci)
        offspringA == FillHoles(PunchHoles(parentA, parentB, selectedLoci, 1),
                                parentB, sortedSelectedLoci, 1)
        offspringB == FillHoles(PunchHoles(parentB, parentA, selectedLoci, 1),
                                parentA, sortedSelectedLoci, 1)
    IN  SetOf(<<chrToStr(offspringA), chrToStr(offspringB)>>)

\* variant: an offspring that is a member of the last generation is admitted
RECURSIVE admitOffsprings_ignoringLast(_, _, _, _)
admitOffsprings_ignoringLast(pop, offsprings, last, i) ==
    IF i > Len(offsprings) THEN pop
    ELSE admitOffsprings_ignoringLast(
             IF offsprings[i] \notin Range(pop) /\ Len(pop) < populationSize
             THEN SetAdd(pop, offsprings[i])
             ELSE pop,
             offsprings, last, i + 1)

\* the for loop of _evolvePopulation over the offspring from position i on
RECURSIVE admitOffsprings(_, _, _, _)
admitOffsprings(pop, offsprings, last, i) ==
    IF i > Len(offsprings) THEN pop
    ELSE admitOffsprings(
             IF /\ offsprings[i] \notin Range(pop)
                /\ Len(pop) < populationSize
                /\ (~isProblemLarge \/ offsprings[i] \notin Keys(last))
             THEN SetAdd(pop, offsprings[i])
             ELSE pop,
             offsprings, last, i + 1)

-----------------------------------------------------------------------------
(* Survival *)

\* GA._survivalSelection
survivalSelection(last, evolvedPopulation) ==
    LET sortedLastGeneration == quickSort(last)
        nextGeneration == quickSort(evaluatePopulationFitness(evolvedPopulation))
    IN  MapOf(Splice(nextGeneration, Len(nextGeneration) - eliteCount, eliteCount,
                     Slice(sortedLastGeneration, 0, eliteCount + 1)))

-----------------------------------------------------------------------------
(* The problems and configurations solve() is run on *)

Config(dimension, origin, rto, popSize, gens, chrAge, elite, table) ==
    [dimension |-> dimension, fixedOriginIndex |-> origin,
     returnToOrigin |-> rto, populationSize |-> popSize,
     nnaPercentage |-> Undefined, maxGens |-> gens, maxChrAge |-> chrAge,
     mutationRate |-> Undefined, eliteCount |-> elite, costTable |-> table]

\* permutation space <= population size: 3 nodes with and without a fixed
\* origin, and the symmetric 4-node scenario with origin 0 and P = 6, closed
\* and open
SmallConfigs ==
    {Config(3, fo, rto, Undefined, Undefined, Undefined, Undefined, Asymmetric3) :
        fo \in {Undefined, Some(1)}, rto \in {Undefined, Some(FALSE)}}
    \cup {Config(4, Some(0), Some(rto), Some(6), Some(50), Undefined, Undefined, Symmetric4) :
            rto \in BOOLEAN}

\* permutation space > population size
LargeConfigs ==
    {Config(4, fo, Undefined, Some(2), Some(gens), Undefined, Some(1), Symmetric4) :
        fo \in {Some(0), Some(2)}, gens \in 0 .. MaxGensBound}
    \cup {Config(4, fo, Undefined, Some(2), Some(MaxGensBound), Some(0), Some(1), Symmetric4) :
        fo \in {Some(0), Some(2)}}
    \cup {Config(3, Undefined, Undefined, Some(2), Some(gens), Undefined, Some(1), Asymmetric3) :
        gens \in 1 .. MaxGensBound}
    \cup {Config(4, Some(1), Undefined, Some(3), Some(1), Undefined, Undefined, Symmetric4)}
    \cup {Config(4, Some(0), Undefined, Some(1), Some(1), Undefined, Undefined, Symmetric4)}
    \cup {Config(4, Some(0), Undefined, Some(4), Some(1), Undefined, Undefined, Symmetric4)}
    \cup {[Config(4, Some(0), Undefined, Some(2), Some(1), Undefined, Some(1), Symmetric4)
               EXCEPT !.mutationRate = Some(rate)] : rate \in {0, 100}}

Configs == SmallConfigs \cup LargeConfigs

-----------------------------------------------------------------------------
(* solve() *)

Init ==
    /\ cfg \in Configs
    /\ pc = "start"
    /\ generationCount = 0
    /\ evaluatedPopulation = <<>>
    /\ lastGeneration = <<>>
    /\ population = <<>>
    /\ solution = NoSolution
    /\ registrations = 0
    /\ evolutions = 0
    /\ rejection = Undefined
    /\ problem = Undefined
    /\ step = "solving"
    /\ inFlight = {}
    /\ costTable = <<>>
    /\ solverInput = Undefined
    /\ brokerError = Undefined
    /\ SeedIdle
    /\ ParserIdle
    /\ SortIdle

\* _generateInitialPopulation, _evaluatePopulationFitness and the first
\* _registerSolutionStats
Seed ==
    /\ pc = "start"
    /\ \E initial \in generateInitialPopulation :
          LET evaluated == evaluatePopulationFitness(initial)
          IN  /\ evaluatedPopulation' = evaluated
              /\ solution' = registerSolutionStats(solution, evaluated, generationCount + 1)
    /\ generationCount' = generationCount + 1
    /\ registrations' = registrations + 1
    /\ pc' = "loop"
    /\ UNCHANGED <<cfg, lastGeneration, population, evolutions, rejection>>
    /\ UNCHANGED <<brokerVars, seedVars, parserVars, sortVars>>

\* while (!this._hasEndingConditionsMet()): the loop is entered and
\* _evolvePopulation starts with an empty Set
BeginEvolve ==
    /\ pc = "loop"
    /\ ~hasEndingConditionsMet
    /\ pc' = "evolve"
    /\ population' = <<>>
    /\ lastGeneration' = <<>>
    /\ UNCHANGED <<cfg, generationCount, evaluatedPopulation, solution,
                   registrations, evolutions, rejection>>
    /\ UNCHANGED <<brokerVars, seedVars, parserVars, sortVars>>

\* the loop is left and the promise resolves with this._solution
Resolve ==
    /\ pc = "loop"
    /\ hasEndingConditionsMet
    /\ pc' = "done"
    /\ UNCHANGED <<cfg, generationCount, evaluatedPopulation, lastGeneration,
                   population, solution, registrations, evolutions, rejection>>
    /\ UNCHANGED <<brokerVars, seedVars, parserVars, sortVars>>

\* variant: the selection raises without a status code
SelectionFails_plainError ==
    /\ pc = "evolve"
    /\ Len(population) < mutationCount \/ Len(population) < populationSize
    /\ Len(evaluatedPopulation) < 2
    /\ pc' = "rejected"
    /\ rejection' = Some(PlainError("SELECTION_INVALID_POPULATION"))
    /\ UNCHANGED <<cfg, generationCount, evaluatedPopulation, lastGeneration,
                   population, solution, registrations, evolutions>>
    /\ UNCHANGED <<brokerVars, seedVars, parserVars, sortVars>>

\* _randomSelection or _rouletteWheelSelection raises on a generation of fewer
\* than 2 chromosomes; solve rejects
SelectionFails ==
    /\ pc = "evolve"
    /\ Len(population) < mutationCount \/ Len(population) < populationSize
    /\ Len(evaluatedPopulation) < 2
    /\ pc' = "rejected"
    /\ rejection' = Some(AppError(500, "SELECTION_INVALID_POPULATION"))
    /\ UNCHANGED <<cfg, generationCount, evaluatedPopulation, lastGeneration,
                   population, solution, registrations, evolutions>>
    /\ UNCHANGED <<brokerVars, seedVars, parserVars, sortVars>>

\* one pass of the first while loop of _evolvePopulation
MutationPass ==
    /\ pc = "evolve"
    /\ Len(population) < mutationCount
    /\ Len(evaluatedPopulation) >= 2
    /\ \E selected \in randomSelection(evaluatedPopulation) :
       \E firstDraw, lastDraw \in random(FirstFreeLocus, cfg.dimension - 1) :
          /\ firstDraw # lastDraw
          /\ \E displacementPosition \in displacementPositions(selected, firstDraw, lastDraw) :
                LET chromosome == mutate(selected, firstDraw, lastDraw, displacementPosition)
                IN  population' =
                        IF ~isProblemLarge \/ chromosome \notin Keys(evaluatedPopulation)
                        THEN SetAdd(population, chromosome)
                        ELSE population
    /\ UNCHANGED <<cfg, pc, generationCount, evaluatedPopulation, lastGeneration,
                   solution, registrations, evolutions, rejection>>
    /\ UNCHANGED <<brokerVars, seedVars, parserVars, sortVars>>

\* one pass of the second while loop of _evolvePopulation
CrossoverPass ==
    /\ pc = "evolve"
    /\ Len(population) >= mutationCount
    /\ Len(population) < populationSize
    /\ Len(evaluatedPopulation) >= 2
    /\ \E parents \in rouletteWheelSelection(evaluatedPopulation) :
       \E selectedLoci \in lociSelections :
          population' = admitOffsprings(population, mate(parents, selectedLoci),
                                        evaluatedPopulation, 1)
    /\ UNCHANGED <<cfg, pc, generationCount, evaluatedPopulation, lastGeneration,
                   solution, registrations, evolutions, rejection>>
    /\ UNCHANGED <<brokerVars, seedVars, parserVars, sortVars>>

\* variant: the statistics are registered before the counter is incremented
Survive_countAfterRegistration ==
    /\ pc = "evolve"
    /\ Len(population) >= mutationCount
    /\ Len(population) >= populationSize
    /\ LET nextGeneration == survivalSelection(evaluatedPopulation, population)
       IN  /\ evaluatedPopulation' = nextGeneration
           /\ solution' = registerSolutionStats(solution, nextGeneration, generationCount)
    /\ lastGeneration' = evaluatedPopulation
    /\ generationCount' = generationCount + 1
    /\ registrations' = registrations + 1
    /\ evolutions' = evolutions + 1
    /\ pc' = "loop"
    /\ UNCHANGED <<cfg, population, rejection>>
    /\ UNCHANGED <<brokerVars, seedVars, parserVars, sortVars>>

\* _evolvePopulation returns; _survivalSelection, this._generationCount++ and
\* _registerSolutionStats
Survive ==
    /\ pc = "evolve"
    /\ Len(population) >= mutationCount
    /\ Len(population) >= populationSize
    /\ LET nextGeneration == survivalSelection(evaluatedPopulation, population)
       IN  /\ evaluatedPopulation' = nextGeneration
           /\ solution' = registerSolutionStats(solution, nextGeneration, generationCount + 1)
    /\ lastGeneration' = evaluatedPopulation
    /\ generationCount' = generationCount + 1
    /\ registrations' = registrations + 1
    /\ evolutions' = evolutions + 1
    /\ pc' = "loop"
    /\ UNCHANGED <<cfg, population, rejection>>
    /\ UNCHANGED <<brokerVars, seedVars, parserVars, sortVars>>

Next ==
    \/ Seed
    \/ BeginEvolve
    \/ Resolve
    \/ SelectionFails
    \/ MutationPass
    \/ CrossoverPass
    \/ Survive

Spec == Init /\ [][Next]_vars

-----------------------------------------------------------------------------
(* Broker and the cost-table pipeline: core/broker.ts and                  *)
(* services/brokerServices.ts.  A coordinate is a number: 0 stands for a   *)
(* line that is not "latitude,longitude", a positive number for a place.   *)
(* A pair is <<originIndex, destIndex>>, 0-based as in the code.           *)

\* the largest coordinate file of the model
MaxCoords == 12

\* validator's isLatLong
isLatLong(coordinate) == coordinate > 0

\* the provider's answer for a route: NeshanResponse.routes[0].legs[0]
NeshanLeg(origin, dest) ==
    [distance |-> 1000 + origin + dest, duration |-> 7 * origin + 3 * dest]

\* getNeshanRoute: the RouteData of a successful request
getNeshanRoute(origin, dest) ==
    [origin |-> origin, destination |-> dest,
     cost |-> [distance |-> NeshanLeg(origin, dest).distance,
               duration |-> NeshanLeg(origin, dest).duration]]

\* the two nested loops of calculateCostTable: the pairs fetched, and the
\* rows pushed for origin = destination, in loop order
OffDiagonalPairs(coords) ==
    {p \in (0 .. Len(coords) - 1) \X (0 .. Len(coords) - 1) : p[1] # p[2]}

DiagonalRows(coords) == [k \in 1 .. Len(coords) |-> <<k - 1, k - 1, 0>>]

\* the comparator of costTable.sort: negative iff a goes before b
CompareRows(a, b) == IF a[1] = b[1] THEN a[2] - b[2] ELSE a[1] - b[1]

\* variant: the table is returned in the order its rows were pushed
sortCostTable_asPushed(rows) == rows

\* costTable.sort(...): a stable sort by the comparator; a row goes after the
\* rows that compare lower and after the earlier rows that compare equal
sortCostTable(rows) ==
    LET before == [i \in DOMAIN rows |->
                      Cardinality({j \in DOMAIN rows :
                          \/ CompareRows(rows[j], rows[i]) < 0
                          \/ CompareRows(rows[j], rows[i]) = 0 /\ j < i})]
    IN  [k \in DOMAIN rows |-> rows[CHOOSE i \in DOMAIN rows : before[i] = k - 1]]

\* the requests whose answer can arrive next, by the order the network
\* answers in: any order, the order of dispatch or the reverse of it
NextAnswers(pending, order) ==
    IF order = "any" THEN pending
    ELSE {p \in pending :
             \A q \in pending :
                 IF order = "dispatch" THEN CompareRows(p, q) <= 0 ELSE CompareRows(p, q) >= 0}

\* a problem descriptor, its coordinate file, the environment's API key and
\* the provider's behaviour
ProblemOf(dimension, isRealInstance, coords, hasApiKey, failing, order) ==
    [dimension |-> dimension, isRealInstance |-> isRealInstance, apiName |-> "neshan",
     algorithm |-> "GA", coords |-> coords, hasApiKey |-> hasApiKey,
     failing |-> failing, order |-> order, entry |-> "broker"]

\* calculateCostTable called by itself with the coordinates, a key (or none)
\* and an API name
ServiceCall(coords, hasApiKey, apiName) ==
    [ProblemOf(Len(coords), TRUE, coords, hasApiKey, {}, "any")
        EXCEPT !.entry = "service", !.apiName = apiName]

Problems ==
    {ProblemOf(3, TRUE, <<1, 2, 3>>, TRUE, failing, "any") :
        failing \in {{}, {<<0, 1>>}, {<<1, 2>>, <<2, 0>>}}}
    \cup {ProblemOf(4, TRUE, <<4, 2, 7, 5>>, TRUE, failing, order) :
        failing \in {{}, {<<0, 3>>}}, order \in {"dispatch", "reverse"}}
    \cup {ProblemOf(4, TRUE, <<1, 2, 3>>, TRUE, {}, "reverse")}
    \cup {ProblemOf(MaxCoords, TRUE, [k \in 1 .. MaxCoords |-> k], TRUE, {}, "dispatch")}
    \cup {ProblemOf(3, FALSE, <<1, 2, 3>>, TRUE, {}, "any"),
          ProblemOf(3, TRUE, <<1, 2, 3>>, FALSE, {}, "any"),
          ProblemOf(3, TRUE, <<1, 0, 3>>, TRUE, {}, "any"),
          ProblemOf(3, TRUE, <<>>, TRUE, {}, "any"),
          [ProblemOf(3, TRUE, <<1, 2, 3>>, TRUE, {}, "any") EXCEPT !.apiName = "other"],
          [ProblemOf(3, TRUE, <<1, 2, 3>>, FALSE, {}, "any") EXCEPT !.apiName = "other"]}
    \cup {ServiceCall(coords, hasApiKey, apiName) :
            coords \in {<<1, 2, 3>>, <<1, 0, 3>>}, hasApiKey \in BOOLEAN,
            apiName \in {"neshan", "other"}}

BrokerInit ==
    /\ problem \in Problems
    /\ step = IF problem.entry = "service" THEN "coords" ELSE "new"
    /\ inFlight = {}
    /\ costTable = <<>>
    /\ solverInput = Undefined
    /\ brokerError = Undefined
    /\ cfg = Undefined
    /\ pc = "idle"
    /\ generationCount = 0
    /\ evaluatedPopulation = <<>>
    /\ lastGeneration = <<>>
    /\ population = <<>>
    /\ solution = NoSolution
    /\ registrations = 0
    /\ evolutions = 0
    /\ rejection = Undefined
    /\ SeedIdle
    /\ ParserIdle
    /\ SortIdle

\* Broker._handleApiKey: the key is looked up for a real instance only
NeedsApiKey == problem.isRealInstance /\ problem.apiName = "neshan"

\* new Broker(problem): _handleApiKey and _selectAlgorithm
Construct ==
    /\ step = "new"
    /\ NeedsApiKey => problem.hasApiKey
    /\ step' = "exec"
    /\ UNCHANGED <<problem, inFlight, costTable, solverInput, brokerError>>
    /\ UNCHANGED <<gaVars, seedVars, parserVars, sortVars>>

\* process.env.NESHAN_API_KEY ?? raise(NESHAN_API_KEY_NOT_FOUND)
ConstructFails ==
    /\ step = "new"
    /\ NeedsApiKey /\ ~problem.hasApiKey
    /\ step' = "rejected"
    /\ brokerError' = Some(PlainError("NESHAN_API_KEY_NOT_FOUND"))
    /\ UNCHANGED <<problem, inFlight, costTable, solverInput>>
    /\ UNCHANGED <<gaVars, seedVars, parserVars, sortVars>>

\* getCoords raises on an empty file, and for a real instance on a line that
\* is not a coordinate
CoordsFileInvalid ==
    \/ problem.coords = <<>>
    \/ problem.isRealInstance /\ \E c \in Range(problem.coords) : ~isLatLong(c)

\* exec: await svc.getCoords(...)
GetCoords ==
    /\ step = "exec"
    /\ ~CoordsFileInvalid
    /\ step' = "coords"
    /\ UNCHANGED <<problem, inFlight, costTable, solverInput, brokerError>>
    /\ UNCHANGED <<gaVars, seedVars, parserVars, sortVars>>

GetCoordsFails ==
    /\ step = "exec"
    /\ CoordsFileInvalid
    /\ step' = "rejected"
    /\ brokerError' = Some(AppError(400, "PROBLEM_COORDS_FILE_ERR"))
    /\ UNCHANGED <<problem, inFlight, costTable, solverInput>>
    /\ UNCHANGED <<gaVars, seedVars, parserVars, sortVars>>

\* exec: else raise(PROBLEM_NOT_SUPPORTED, BAD_REQUEST)
NotSupported ==
    /\ step = "coords"
    /\ problem.entry = "broker"
    /\ ~problem.isRealInstance
    /\ step' = "rejected"
    /\ brokerError' = Some(AppError(400, "PROBLEM_NOT_SUPPORTED"))
    /\ UNCHANGED <<problem, inFlight, costTable, solverInput>>
    /\ UNCHANGED <<gaVars, seedVars, parserVars, sortVars>>

\* variant: calculateCostTable does not test the key
HasApiKey_untested == problem.isRealInstance

\* the apiKey calculateCostTable is given: Broker._apiKey, which is set only
\* when _handleApiKey looked the key up, or the caller's key
HasApiKey ==
    IF problem.entry = "broker" THEN NeedsApiKey /\ problem.hasApiKey ELSE problem.hasApiKey

\* the coordinates getNeshanRoute rejects before fetching
InvalidCoords == {k \in 0 .. Len(problem.coords) - 1 : ~isLatLong(problem.coords[k + 1])}

\* calculateCostTable: if (!apiKey) raise(NESHAN_API_KEY_NOT_FOUND)
KeyMissing ==
    /\ step = "coords"
    /\ problem.isRealInstance
    /\ ~HasApiKey
    /\ step' = "rejected"
    /\ brokerError' = Some(PlainError("NESHAN_API_KEY_NOT_FOUND"))
    /\ UNCHANGED <<problem, inFlight, costTable, solverInput>>
    /\ UNCHANGED <<gaVars, seedVars, parserVars, sortVars>>

\* calculateCostTable: switch (apiName) default: raise(API_UNSUPPORTED_ERR)
ApiUnsupported ==
    /\ step = "coords"
    /\ problem.isRealInstance
    /\ HasApiKey
    /\ problem.apiName # "neshan"
    /\ step' = "rejected"
    /\ brokerError' = Some(PlainError("API_UNSUPPORTED_ERR"))
    /\ UNCHANGED <<problem, inFlight, costTable, solverInput>>
    /\ UNCHANGED <<gaVars, seedVars, parserVars, sortVars>>

\* `${err}` of an Error: its name, a colon and its message
ErrorToString(message) == "Error: " \o message

\* calculateCostTable's loops with a coordinate that is not "lat,long": for a
\* pair that holds it getNeshanRoute throws its AppError before fetching, the
\* .catch callback raises a plain Error whose message quotes it, and
\* Promise.all rejects; the requests of the other pairs are out
DispatchInvalid ==
    /\ step = "coords"
    /\ problem.isRealInstance
    /\ HasApiKey
    /\ problem.apiName = "neshan"
    /\ InvalidCoords # {}
    /\ costTable' = DiagonalRows(problem.coords)
    /\ inFlight' = {p \in OffDiagonalPairs(problem.coords) :
                       p[1] \notin InvalidCoords /\ p[2] \notin InvalidCoords}
    /\ step' = "rejected"
    /\ brokerError' = Some(PlainError("NESHAN_API_FAILED" \o ", " \o ErrorToString("ORG_DEST_VALID_ERR")))
    /\ UNCHANGED <<problem, solverInput>>
    /\ UNCHANGED <<gaVars, seedVars, parserVars, sortVars>>

\* variant: only the first pair's request is issued before the await
Dispatch_firstOnly ==
    /\ step = "coords"
    /\ problem.isRealInstance
    /\ costTable' = DiagonalRows(problem.coords)
    /\ inFlight' = {p \in OffDiagonalPairs(problem.coords) : p = <<0, 1>>}
    /\ step' = "awaiting"
    /\ UNCHANGED <<problem, solverInput, brokerError>>
    /\ UNCHANGED <<gaVars, seedVars, parserVars, sortVars>>

\* calculateCostTable up to `await Promise.all(resps)`: the nested loops push
\* the diagonal rows and issue every other pair's request
Dispatch ==
    /\ step = "coords"
    /\ problem.isRealInstance
    /\ HasApiKey
    /\ problem.apiName = "neshan"
    /\ InvalidCoords = {}
    /\ costTable' = DiagonalRows(problem.coords)
    /\ inFlight' = OffDiagonalPairs(problem.coords)
    /\ step' = "awaiting"
    /\ UNCHANGED <<problem, solverInput, brokerError>>
    /\ UNCHANGED <<gaVars, seedVars, parserVars, sortVars>>

\* a request is answered with a route: the .then callback pushes its row.
\* The callback also runs when exec has been rejected already.
FetchSucceeds ==
    /\ step \in {"awaiting", "rejected"}
    /\ \E pair \in NextAnswers(inFlight, problem.order) :
          /\ pair \notin problem.failing
          /\ inFlight' = inFlight \ {pair}
          /\ costTable' = Append(costTable,
                 <<pair[1], pair[2],
                   getNeshanRoute(problem.coords[pair[1] + 1],
                                  problem.coords[pair[2] + 1]).cost.duration>>)
    /\ UNCHANGED <<problem, step, solverInput, brokerError>>
    /\ UNCHANGED <<gaVars, seedVars, parserVars, sortVars>>

\* variant: the .catch callback swallows the failure of a request
FetchFails_swallowed ==
    /\ step \in {"awaiting", "rejected"}
    /\ \E pair \in NextAnswers(inFlight, problem.order) :
          /\ pair \in problem.failing
          /\ inFlight' = inFlight \ {pair}
    /\ UNCHANGED <<problem, step, costTable, solverInput, brokerError>>
    /\ UNCHANGED <<gaVars, seedVars, parserVars, sortVars>>

\* a request is answered with a status that is not ok: getNeshanRoute throws,
\* the .catch callback raises, Promise.all rejects and with it
\* calculateCostTable and exec (only the first rejection is seen)
FetchFails ==
    /\ step \in {"awaiting", "rejected"}
    /\ \E pair \in NextAnswers(inFlight, problem.order) :
          /\ pair \in problem.failing
          /\ inFlight' = inFlight \ {pair}
    /\ step' = "rejected"
    /\ brokerError' =
           IF step = "awaiting" THEN Some(PlainError("NESHAN_API_FAILED")) ELSE brokerError
    /\ UNCHANGED <<problem, costTable, solverInput>>
    /\ UNCHANGED <<gaVars, seedVars, parserVars, sortVars>>

\* Promise.all resolves: the table is sorted and returned, configs.dimension
\* is set from the problem and the algorithm is constructed and run
StartSolver ==
    /\ step = "awaiting"
    /\ problem.entry = "broker"
    /\ inFlight = {}
    /\ costTable' = sortCostTable(costTable)
    /\ solverInput' = Some([costTable |-> sortCostTable(costTable),
                            dimension |-> problem.dimension])
    /\ step' = "solving"
    /\ UNCHANGED <<problem, inFlight, brokerError>>
    /\ UNCHANGED <<gaVars, seedVars, parserVars, sortVars>>

\* calculateCostTable called by itself: Promise.all resolves, the table is
\* sorted and returned
ReturnTable ==
    /\ step = "awaiting"
    /\ problem.entry = "service"
    /\ inFlight = {}
    /\ costTable' = sortCostTable(costTable)
    /\ step' = "returned"
    /\ UNCHANGED <<problem, inFlight, solverInput, brokerError>>
    /\ UNCHANGED <<gaVars, seedVars, parserVars, sortVars>>

BrokerNext ==
    \/ Construct
    \/ ConstructFails
    \/ GetCoords
    \/ GetCoordsFails
    \/ NotSupported
    \/ KeyMissing
    \/ ApiUnsupported
    \/ DispatchInvalid
    \/ Dispatch
    \/ FetchSucceeds
    \/ FetchFails
    \/ StartSolver
    \/ ReturnTable

BrokerSpec == BrokerInit /\ [][BrokerNext]_vars

-----------------------------------------------------------------------------
(* _generateInitialPopulation, loop by loop *)

\* a symmetric 4-node matrix with a zero-cost edge between nodes 0 and 1
ZeroEdge4 == TableOf(<< <<0, 0, 2, 3>>, <<0, 0, 1, 2>>, <<2, 1, 0, 1>>, <<3, 2, 1, 0>> >>)

\* _generateInitialPopulation: the count handed to _generateNnaChrs
nnaChrCount ==
    LET nnaChrMaxCount == IF isOriginFixed THEN cfg.dimension - 1 ELSE cfg.dimension
        nnaPopulationPercentage == Coalesce(cfg.nnaPercentage, NNA_POPULATION_PERCENTAGE)
        nnaCount == RoundDiv(nnaPopulationPercentage * populationSize, 100)
    IN  IF nnaCount > nnaChrMaxCount THEN nnaChrMaxCount ELSE nnaCount

\* variant: the random share is computed from the uncapped NNA count
randomChrCount_uncapped ==
    populationSize
        - RoundDiv(Coalesce(cfg.nnaPercentage, NNA_POPULATION_PERCENTAGE) * populationSize, 100)

\* _generateInitialPopulation: the count handed to the first _generateRandomChrs
randomChrCount == populationSize - nnaChrCount

\* the configurations seeding is run on: every share of NNA chromosomes, a
\* permutation space equal to and larger than the population size
SeedConfigs ==
    {[Config(3, Undefined, Undefined, popSize, Undefined, Undefined, Undefined, Asymmetric3)
          EXCEPT !.nnaPercentage = pct] :
        popSize \in {Undefined, Some(2), Some(4)},
        pct \in {Undefined, Some(0), Some(50), Some(100)}}
    \cup {[Config(4, fo, Undefined, Some(3), Undefined, Undefined, Undefined, table)
              EXCEPT !.nnaPercentage = pct] :
            fo \in {Some(0), Some(2)}, pct \in {Undefined, Some(100)},
            table \in {Symmetric4, ZeroEdge4}}

SeedInit ==
    /\ cfg \in SeedConfigs
    /\ pc = "nna"
    /\ generationCount = 0
    /\ evaluatedPopulation = <<>>
    /\ lastGeneration = <<>>
    /\ population = <<>>
    /\ solution = NoSolution
    /\ registrations = 0
    /\ evolutions = 0
    /\ rejection = Undefined
    /\ problem = Undefined
    /\ step = "solving"
    /\ inFlight = {}
    /\ costTable = <<>>
    /\ solverInput = Undefined
    /\ brokerError = Undefined
    /\ SeedIdle
    /\ ParserIdle
    /\ SortIdle

\* one pass of the while loop of _generateNnaChrs that adds its chromosome (a
\* pass whose chromosome is already present changes nothing)
NnaPass ==
    /\ pc = "nna"
    /\ Len(initialPopulation) < nnaChrCount
    /\ \E chrStr \in NnaChrs \ Range(initialPopulation) :
          initialPopulation' = Append(initialPopulation, chrStr)
    /\ UNCHANGED <<randomPopulation, randomCount>>
    /\ UNCHANGED <<cfg, pc, generationCount, evaluatedPopulation, lastGeneration,
                   population, solution, registrations, evolutions, rejection>>
    /\ UNCHANGED <<brokerVars, parserVars, sortVars>>

\* _generateNnaChrs returns; _generateRandomChrs(randomChrCount) is called
RandomStart ==
    /\ pc = "nna"
    /\ Len(initialPopulation) >= nnaChrCount
    /\ pc' = "random"
    /\ randomCount' = randomChrCount
    /\ randomPopulation' = <<>>
    /\ UNCHANGED initialPopulation
    /\ UNCHANGED <<cfg, generationCount, evaluatedPopulation, lastGeneration,
                   population, solution, registrations, evolutions, rejection>>
    /\ UNCHANGED <<brokerVars, parserVars, sortVars>>

\* one pass of the while loop of _generateRandomChrs that adds its chromosome
RandomPass ==
    /\ pc = "random"
    /\ Len(randomPopulation) < randomCount
    /\ \E chrStr \in RandomChrs \ Range(randomPopulation) :
          randomPopulation' = Append(randomPopulation, chrStr)
    /\ UNCHANGED <<initialPopulation, randomCount>>
    /\ UNCHANGED <<cfg, pc, generationCount, evaluatedPopulation, lastGeneration,
                   population, solution, registrations, evolutions, rejection>>
    /\ UNCHANGED <<brokerVars, parserVars, sortVars>>

\* one pass of the while loop of _generateInitialPopulation: the forEach adds
\* the random chromosomes not yet present and counts the others, for which
\* _generateRandomChrs is called again
Merge ==
    /\ pc = "random"
    /\ Len(randomPopulation) >= randomCount
    /\ Len(initialPopulation) < populationSize
    /\ LET fresh == SelectSeq(randomPopulation, LAMBDA chr : chr \notin Range(initialPopulation))
           duplicateChrsCount == Len(randomPopulation) - Len(fresh)
       IN  /\ initialPopulation' = initialPopulation \o fresh
           /\ randomCount' = duplicateChrsCount
    /\ randomPopulation' = <<>>
    /\ UNCHANGED <<cfg, pc, generationCount, evaluatedPopulation, lastGeneration,
                   population, solution, registrations, evolutions, rejection>>
    /\ UNCHANGED <<brokerVars, parserVars, sortVars>>

\* the while loop is left: this._generationCount++; return initialPopulation
SeedReturn ==
    /\ pc = "random"
    /\ Len(randomPopulation) >= randomCount
    /\ Len(initialPopulation) >= populationSize
    /\ generationCount' = generationCount + 1
    /\ pc' = "seeded"
    /\ UNCHANGED <<cfg, evaluatedPopulation, lastGeneration,
                   population, solution, registrations, evolutions, rejection>>
    /\ UNCHANGED <<brokerVars, seedVars, parserVars, sortVars>>

SeedNext ==
    \/ NnaPass
    \/ RandomStart
    \/ RandomPass
    \/ Merge
    \/ SeedReturn

\* a pass of _generateRandomChrs whose draw is a chromosome the population
\* does not hold yet
FreshRandomPass ==
    /\ RandomPass
    /\ randomPopulation'[Len(randomPopulation')] \notin Range(initialPopulation)

SeedSpec == SeedInit /\ [][SeedNext]_vars

\* random draws are fair: a loop pass that can be taken is taken, and a draw
\* that is possible again and again eventually comes up
SeedFairSpec == SeedSpec /\ WF_vars(SeedNext) /\ SF_vars(FreshRandomPass)

-----------------------------------------------------------------------------
(* Static instances: readTSPLIBFile, parseTSPLIB, calculateStaticCostTable *)

\* the decimal numerals the instance files are written with
Digits == <<"0", "1", "2", "3", "4", "5", "6", "7", "8", "9">>

NaN == "NaN"

\* parseInt(token, 10) of a one-digit token; NaN when it is no numeral
parseInt(token) ==
    IF \E d \in DOMAIN Digits : Digits[d] = token
    THEN (CHOOSE d \in DOMAIN Digits : Digits[d] = token) - 1
    ELSE NaN

\* parseFloat(token): on the integer numerals above it reads the same number
parseFloat(token) ==
    IF \E d \in DOMAIN Digits : Digits[d] = token
    THEN (CHOOSE d \in DOMAIN Digits : Digits[d] = token) - 1
    ELSE NaN

\* values.join(' ')
RECURSIVE join(_)
join(values) ==
    IF values = <<>> THEN ""
    ELSE IF Len(values) = 1 THEN values[1]
    ELSE values[1] \o " " \o join(Tail(values))

\* Math.trunc(Math.sqrt(n)) for a non-negative integer n
TruncSqrt(n) == CHOOSE r \in 0 .. n : r * r <= n /\ (r + 1) * (r + 1) > n

\* variant: the distance is rounded to the nearest integer
calculateEuclideanDistance_rounded(pointA, pointB) ==
    LET deltaX == pointB.x - pointA.x
        deltaY == pointB.y - pointA.y
        root   == TruncSqrt(deltaX * deltaX + deltaY * deltaY)
    IN  IF 4 * (deltaX * deltaX + deltaY * deltaY) >= (2 * root + 1) * (2 * root + 1)
        THEN root + 1
        ELSE root

\* calculateEuclideanDistance in the plane (space = 2; the parser stores no z)
calculateEuclideanDistance(pointA, pointB) ==
    LET deltaX == pointB.x - pointA.x
        deltaY == pointB.y - pointA.y
    IN  TruncSqrt(deltaX * deltaX + deltaY * deltaY)

\* parseTSPLIB's data before the first line
EmptyData ==
    [name |-> "", type |-> "", dimension |-> 0, edgeWeightType |-> "",
     nodeCoordinates |-> <<>>, edgeWeightMatrix |-> <<>>]

\* variant: DISPLAY_DATA_SECTION leaves the reading modes as they are
parseLine_displayKeepsMode(st, line) ==
    LET key    == line[1]
        values == Tail(line)
    IN  CASE key = "NAME:" -> [st EXCEPT !.data.name = join(values)]
          [] key = "TYPE:" -> [st EXCEPT !.data.type = join(values)]
          [] key = "DIMENSION:" -> [st EXCEPT !.data.dimension = parseInt(values[1])]
          [] key = "EDGE_WEIGHT_TYPE:" -> [st EXCEPT !.data.edgeWeightType = join(values)]
          [] key = "DISPLAY_DATA_SECTION" -> st
          [] key = "EDGE_WEIGHT_SECTION" ->
                [st EXCEPT !.readingEdges = TRUE, !.readingNodes = FALSE]
          [] key = "NODE_COORD_SECTION" ->
                [st EXCEPT !.readingNodes = TRUE, !.readingEdges = FALSE]
          [] key = "EOF" -> [st EXCEPT !.readingNodes = FALSE, !.readingEdges = FALSE]
          [] OTHER ->
                IF st.readingNodes
                THEN [st EXCEPT !.data.nodeCoordinates =
                          Append(@, [nodeIndex |-> parseInt(key) - 1,
                                     x |-> parseFloat(values[1]),
                                     y |-> parseFloat(values[2])])]
                ELSE IF st.readingEdges
                THEN [st EXCEPT !.data.edgeWeightMatrix =
                          @ \o <<parseFloat(key)>>
                            \o [k \in DOMAIN values |-> parseFloat(values[k])]]
                ELSE st

\* the callback of lines.forEach for one line that is not blank: the parser's
\* data and flags after it
parseLine(st, line) ==
    LET key    == line[1]
        values == Tail(line)
    IN  CASE key = "NAME:" -> [st EXCEPT !.data.name = join(values)]
          [] key = "TYPE:" -> [st EXCEPT !.data.type = join(values)]
          [] key = "DIMENSION:" -> [st EXCEPT !.data.dimension = parseInt(values[1])]
          [] key = "EDGE_WEIGHT_TYPE:" -> [st EXCEPT !.data.edgeWeightType = join(values)]
          [] key = "DISPLAY_DATA_SECTION" ->
                [st EXCEPT !.readingNodes = FALSE, !.readingEdges = FALSE]
          [] key = "EDGE_WEIGHT_SECTION" ->
                [st EXCEPT !.readingEdges = TRUE, !.readingNodes = FALSE]
          [] key = "NODE_COORD_SECTION" ->
                [st EXCEPT !.readingNodes = TRUE, !.readingEdges = FALSE]
          [] key = "EOF" -> [st EXCEPT !.readingNodes = FALSE, !.readingEdges = FALSE]
          [] OTHER ->
                IF st.readingNodes
                THEN [st EXCEPT !.data.nodeCoordinates =
                          Append(@, [nodeIndex |-> parseInt(key) - 1,
                                     x |-> parseFloat(values[1]),
                                     y |-> parseFloat(values[2])])]
                ELSE IF st.readingEdges
                THEN [st EXCEPT !.data.edgeWeightMatrix =
                          @ \o <<parseFloat(key)>>
                            \o [k \in DOMAIN values |-> parseFloat(values[k])]]
                ELSE st

\* the EUC_2D case of calculateStaticCostTable: one row per ordered pair of
\* node lines, the origin's loop outside
StaticRows(nodeCoordinates) ==
    LET n == Len(nodeCoordinates)
    IN  [k \in 1 .. n * n |->
            LET origin == nodeCoordinates[((k - 1) \div n) + 1]
                dest   == nodeCoordinates[((k - 1) % n) + 1]
            IN  <<origin.nodeIndex, dest.nodeIndex, calculateEuclideanDistance(origin, dest)>>]

\* the points the instances place their nodes on
Points == {<<"0", "0">>, <<"3", "0">>, <<"0", "4">>, <<"2", "2">>, <<"4", "3">>}

Header(edgeWeightType, dimension) ==
    <<<<"NAME:", "toy">>, <<"TYPE:", "TSP">>, <<"DIMENSION:", dimension>>,
      <<"EDGE_WEIGHT_TYPE:", edgeWeightType>>>>

\* node lines `index x y`, numbered as given
NodeLines(numbering, points) ==
    [k \in DOMAIN points |-> <<numbering[k], points[k][1], points[k][2]>>]

\* the files of the static directory
StaticInstances ==
    {Header("EUC_2D", "3") \o <<<<"NODE_COORD_SECTION">>>>
         \o NodeLines(<<"1", "2", "3">>, points) \o <<<<"EOF">>>> :
        points \in [1 .. 3 -> Points]}
    \cup {Header("EUC_2D", "4") \o <<<<>>, <<"NODE_COORD_SECTION">>>>
            \o NodeLines(<<"1", "2", "3", "4">>, <<p, <<"3", "0">>, <<"0", "4">>, <<"4", "3">>>>)
            \o <<<<>>, <<"EOF">>>> : p \in Points}
    \cup {Header(type, "3") \o <<<<"NODE_COORD_SECTION">>>>
            \o NodeLines(<<"1", "2", "3">>, <<<<"0", "0">>, <<"3", "0">>, <<"0", "4">>>>)
            \o <<<<"EOF">>>> : type \in {"GEO", "EXPLICIT"}}
    \cup {Header("EUC_2D", "3") \o <<<<"NODE_COORD_SECTION">>>>
            \o NodeLines(<<"2", "3", "1">>, <<<<"0", "0">>, <<"3", "0">>, <<"0", "4">>>>)
            \o <<<<"EOF">>>>,
          Header("EUC_2D", "2") \o <<<<"EDGE_WEIGHT_SECTION">>, <<"0", "5">>, <<"5", "0">>,
                                     <<"NODE_COORD_SECTION">>, <<"1", "0", "0">>,
                                     <<"2", "3", "0">>, <<"DISPLAY_DATA_SECTION">>,
                                     <<"1", "2", "2">>, <<"EOF">>, <<"3", "0", "4">>>>,
          <<>>}

ParserInit ==
    /\ content \in StaticInstances
    /\ step = "reading"
    /\ lineNo = 0
    /\ readingNodes = FALSE
    /\ readingEdges = FALSE
    /\ data = <<>>
    /\ costTable = <<>>
    /\ brokerError = Undefined
    /\ problem = Undefined
    /\ inFlight = {}
    /\ solverInput = Undefined
    /\ cfg = Undefined
    /\ pc = "idle"
    /\ generationCount = 0
    /\ evaluatedPopulation = <<>>
    /\ lastGeneration = <<>>
    /\ population = <<>>
    /\ solution = NoSolution
    /\ registrations = 0
    /\ evolutions = 0
    /\ rejection = Undefined
    /\ SeedIdle
    /\ SortIdle

\* readTSPLIBFile: the file has content; parseTSPLIB starts on its lines
ReadFile ==
    /\ step = "reading"
    /\ content # <<>>
    /\ data' = EmptyData
    /\ lineNo' = 1
    /\ step' = "parsing"
    /\ UNCHANGED <<content, readingNodes, readingEdges>>
    /\ UNCHANGED <<problem, inFlight, costTable, solverInput, brokerError>>
    /\ UNCHANGED <<gaVars, seedVars, sortVars>>

\* readTSPLIBFile: raise(PROBLEM_NOT_FOUND, BAD_REQUEST) on an empty file
ReadFileFails ==
    /\ step = "reading"
    /\ content = <<>>
    /\ step' = "rejected"
    /\ brokerError' = Some(AppError(400, "PROBLEM_NOT_FOUND"))
    /\ UNCHANGED <<problem, inFlight, costTable, solverInput>>
    /\ UNCHANGED <<gaVars, seedVars, parserVars, sortVars>>

\* one pass of lines.forEach; after the last line parseTSPLIB returns data
ParseLine ==
    /\ step = "parsing"
    /\ LET trimmedLine == content[lineNo]
           st == [data |-> data, readingNodes |-> readingNodes, readingEdges |-> readingEdges]
           after == IF trimmedLine = <<>> THEN st ELSE parseLine(st, trimmedLine)
       IN  /\ data' = after.data
           /\ readingNodes' = after.readingNodes
           /\ readingEdges' = after.readingEdges
    /\ lineNo' = lineNo + 1
    /\ step' = IF lineNo = Len(content) THEN "parsed" ELSE "parsing"
    /\ UNCHANGED content
    /\ UNCHANGED <<problem, inFlight, costTable, solverInput, brokerError>>
    /\ UNCHANGED <<gaVars, seedVars, sortVars>>

\* calculateStaticCostTable after readTSPLIBFile: case EUC2D
StaticTable ==
    /\ step = "parsed"
    /\ data.edgeWeightType = "EUC_2D"
    /\ costTable' = StaticRows(data.nodeCoordinates)
    /\ step' = "tabled"
    /\ UNCHANGED <<problem, inFlight, solverInput, brokerError>>
    /\ UNCHANGED <<gaVars, seedVars, parserVars, sortVars>>

\* calculateStaticCostTable: default: raise(PROBLEM_NOT_SUPPORTED, BAD_REQUEST)
StaticNotSupported ==
    /\ step = "parsed"
    /\ data.edgeWeightType # "EUC_2D"
    /\ step' = "rejected"
    /\ brokerError' = Some(AppError(400, "PROBLEM_NOT_SUPPORTED"))
    /\ UNCHANGED <<problem, inFlight, costTable, solverInput>>
    /\ UNCHANGED <<gaVars, seedVars, parserVars, sortVars>>

ParserNext ==
    \/ ReadFile
    \/ ReadFileFails
    \/ ParseLine
    \/ StaticTable
    \/ StaticNotSupported

ParserSpec == ParserInit /\ [][ParserNext]_vars

-----------------------------------------------------------------------------
(* Vocabulary of the properties, stated without the solver's own helpers *)

N == cfg.dimension

\* a tour: every node of [0, N) exactly once
IsTour(chromosome) ==
    /\ Len(chromosome) = N
    /\ \A node \in 0 .. N - 1 : Cardinality({i \in DOMAIN chromosome : chromosome[i] = node}) = 1

HasFixedOrigin == cfg.fixedOriginIndex # Undefined

\* all tours that respect the fixed origin, if any
PermutationSpace ==
    {t \in [1 .. N -> 0 .. N - 1] :
        /\ IsTour(t)
        /\ HasFixedOrigin => t[1] = cfg.fixedOriginIndex[1]}

ConfiguredPopulationSize ==
    IF cfg.populationSize = Undefined THEN POPULATION_SIZE ELSE cfg.populationSize[1]

IsSmallProblem == Cardinality(PermutationSpace) <= ConfiguredPopulationSize

ClosesTour == cfg.returnToOrigin = Undefined \/ cfg.returnToOrigin = Some(TRUE)

\* the cost-table entry for (origin, dest)
TableCost(origin, dest) ==
    LET k == CHOOSE i \in DOMAIN cfg.costTable :
                 cfg.costTable[i][1] = origin /\ cfg.costTable[i][2] = dest
    IN  cfg.costTable[k][3]

RECURSIVE SumOver(_, _)
SumOver(f, S) ==
    IF S = {} THEN 0
    ELSE LET x == CHOOSE y \in S : TRUE IN f[x] + SumOver(f, S \ {x})

\* cost of a tour: its N - 1 path edges, plus the closing edge iff asked for
TourCost(chromosome, closed) ==
    SumOver([k \in 1 .. N - 1 |-> TableCost(chromosome[k], chromosome[k + 1])], 1 .. N - 1)
    + (IF closed THEN TableCost(chromosome[N], chromosome[1]) ELSE 0)

\* every chromosome held in a generation, in the evolving population or in
\* the reported solution
HeldChromosomes ==
    Keys(evaluatedPopulation) \cup Keys(lastGeneration) \cup Range(population)
        \cup Range(solution.solution)

\* every chromosome the seeding components can produce
SeededChromosomes == NnaChrs \cup RandomChrs

\* every chromosome _mutate can produce from the current generation (the
\* generation does not change while a population is being evolved, so the
\* properties look at these sets once, when _evolvePopulation starts)
MutatedChromosomes ==
    {mutate(e[1], d[1], d[2], d[3]) :
        e \in Range(evaluatedPopulation),
        d \in {x \in random(FirstFreeLocus, N - 1) \X random(FirstFreeLocus, N - 1)
                     \X random(0, N) :
                  /\ x[1] # x[2]
                  /\ x[3] >= FirstFreeLocus
                  /\ x[3] <= N - 1 - (Max(x[1], x[2]) - Min(x[1], x[2]))}}

\* every chromosome _mate can produce from the current generation
MatedChromosomes ==
    UNION {Range(mate(parents, selectedLoci)) :
              parents \in rouletteWheelSelection(evaluatedPopulation),
              selectedLoci \in lociSelections}

\* after a survival step: lastGeneration is G_prev, population is G_new and
\* evaluatedPopulation is what _survivalSelection returned
AfterSurvival == pc \in {"loop", "done"} /\ evolutions >= 1

\* a choice of the k entries of `entries` that are highest (lowest) in
\* fitness: no entry outside the choice is strictly fitter (less fit) than
\* one inside
TopChoices(entries, k) ==
    {S \in SUBSET DOMAIN entries :
        /\ Cardinality(S) = Min(k, Len(entries))
        /\ \A i \in S, j \in DOMAIN entries \ S : ~FitnessLess(entries[i][2], entries[j][2])}

BottomChoices(entries, k) ==
    {S \in SUBSET DOMAIN entries :
        /\ Cardinality(S) = Min(k, Len(entries))
        /\ \A i \in S, j \in DOMAIN entries \ S : ~FitnessLess(entries[j][2], entries[i][2])}

-----------------------------------------------------------------------------
(* Properties *)

\* C1: survival selection preserves the elite: after every survival step the
\* E = eliteCount highest-fitness chromosomes of the previous generation are
\* members of the generation _survivalSelection returned.
C1_ElitePreserved ==
    AfterSurvival =>
        \E S \in TopChoices(lastGeneration, eliteCount) :
            \A i \in S : lastGeneration[i][1] \in Keys(evaluatedPopulation)

\* C2: the evaluated generation held by solve has exactly P = populationSize
\* chromosomes after any number of evolution steps on a large problem, and
\* exactly the permutation space on a small one.
C2_GenerationSize ==
    pc \in {"loop", "evolve", "done"} =>
        IF IsSmallProblem
        THEN Keys(evaluatedPopulation) = PermutationSpace
             /\ Len(evaluatedPopulation) = Cardinality(PermutationSpace)
        ELSE Len(evaluatedPopulation) = ConfiguredPopulationSize

\* C3: for every evaluated chromosome the evaluator's cost is the sum of the
\* N - 1 path edges plus the closing edge iff returnToOrigin, and the fitness
\* is 1 / cost.
C3_EvaluatorCost ==
    \A e \in Range(evaluatedPopulation) :
        e[2] = [num |-> 1, den |-> TourCost(e[1], ClosesTour)]

\* C4: on a small problem with returnToOrigin, the bestCost solve returns is
\* the minimum closed-tour cost over the permutation space: 6 for the
\* symmetric 4-node matrix with origin 0, 23 for the asymmetric 3-node matrix
\* without a fixed origin.
C4_SmallProblemOptimum ==
    (pc = "done" /\ IsSmallProblem /\ ClosesTour) =>
        /\ \E t \in PermutationSpace : solution.bestCost = Some(TourCost(t, TRUE))
        /\ \A t \in PermutationSpace : solution.bestCost[1] <= TourCost(t, TRUE)
        /\ (cfg.costTable = Symmetric4 /\ cfg.fixedOriginIndex = Some(0))
               => solution.bestCost = Some(6)
        /\ (cfg.costTable = Asymmetric3 /\ ~HasFixedOrigin)
               => solution.bestCost = Some(23)

\* C5: after every stats registration, bestCostHistory[bestCostGeneration] is
\* bestCost and worstCostHistory[worstCostGeneration] is worstCost, with the
\* histories indexed (0-based) by the recorded generation numbers.
C5_HistoryAtGeneration ==
    registrations >= 1 =>
        /\ solution.bestCostGeneration[1] + 1 \in DOMAIN solution.bestCostHistory
        /\ solution.bestCostHistory[solution.bestCostGeneration[1] + 1] = solution.bestCost[1]
        /\ solution.worstCostGeneration[1] + 1 \in DOMAIN solution.worstCostHistory
        /\ solution.worstCostHistory[solution.worstCostGeneration[1] + 1] = solution.worstCost[1]

\* C6: every chromosome produced by NNA seeding, random seeding, mutation or
\* crossover, and every chromosome present in a generation of a solve, has
\* length N and contains each index of [0, N) exactly once.
C6_ChromosomesAreTours ==
    /\ \A c \in HeldChromosomes : IsTour(c)
    /\ pc = "start" => \A c \in SeededChromosomes : IsTour(c)
    /\ (pc = "evolve" /\ population = <<>> /\ Len(evaluatedPopulation) >= 2) =>
           \A c \in MutatedChromosomes \cup MatedChromosomes : IsTour(c)

C6_Witness ==
    /\ AfterSurvival
    /\ ~HasFixedOrigin
    /\ \E c \in Range(population) : c \notin NnaChrs

\* C7: with fixedOriginIndex = O (O = 0 included), every chromosome of every
\* generation, and every chromosome mutation or crossover can produce for any
\* draw, has O at position 0.
C7_OriginStaysFirst ==
    HasFixedOrigin =>
        /\ \A c \in HeldChromosomes : c[1] = cfg.fixedOriginIndex[1]
        /\ pc = "start" => \A c \in SeededChromosomes : c[1] = cfg.fixedOriginIndex[1]
        /\ (pc = "evolve" /\ population = <<>> /\ Len(evaluatedPopulation) >= 2) =>
               \A c \in MutatedChromosomes \cup MatedChromosomes :
                   c[1] = cfg.fixedOriginIndex[1]

C7_Witness ==
    /\ AfterSurvival
    /\ cfg.fixedOriginIndex = Some(2)
    /\ evolutions >= 2

\* C8: survival selection drops only the bottom of the evolved generation:
\* every chromosome of G_new other than its E lowest-fitness ones is a member
\* of the generation _survivalSelection returned.
C8_OnlyBottomDropped ==
    AfterSurvival =>
        \E S \in BottomChoices(evaluatePopulationFitness(population), eliteCount) :
            \A i \in DOMAIN population \ S : population[i] \in Keys(evaluatedPopulation)

\* the loop condition as the claim states it
MayContinue ==
    /\ generationCount <= Coalesce(cfg.maxGens, MAX_GENERATION_COUNT)
    /\ generationCount - solution.bestCostGeneration[1]
           <= Coalesce(cfg.maxChrAge, MAX_CHROMOSOME_AGE)

\* C9: on a large problem, at each generation boundary the loop performs
\* another evolution step iff generationCount <= maxGens and
\* generationCount - bestCostGeneration <= maxChrAge; so when solve returns,
\* one of the two limits is exceeded.
C9_LoopCondition ==
    [][(pc = "loop" /\ ~IsSmallProblem) =>
           /\ pc' = "evolve" <=> MayContinue
           /\ pc' = "done" <=> ~MayContinue]_vars

C9_Witness ==
    /\ pc = "done"
    /\ ~IsSmallProblem
    /\ evolutions >= 1
    /\ generationCount <= Coalesce(cfg.maxGens, MAX_GENERATION_COUNT)
    /\ generationCount - solution.bestCostGeneration[1] > 0

\* C10: on a small problem the initial population is exactly the whole
\* permutation space and solve resolves after exactly one stats registration
\* without any evolution step.
C10_SmallProblemPath ==
    IsSmallProblem =>
        /\ pc \in {"start", "loop", "done"}
        /\ population = <<>> /\ evolutions = 0
        /\ pc = "start" => registrations = 0
        /\ pc # "start" =>
               /\ registrations = 1
               /\ Keys(evaluatedPopulation) = PermutationSpace
               /\ Len(evaluatedPopulation) = Cardinality(PermutationSpace)
        /\ pc = "loop" => hasEndingConditionsMet

C10_Witness ==
    /\ pc = "done"
    /\ N = 3 /\ HasFixedOrigin
    /\ Cardinality(PermutationSpace) = 2
    /\ registrations = 1

\* the generation limit as configured
GenerationLimit == Coalesce(cfg.maxGens, MAX_GENERATION_COUNT)

\* C11: on a large problem solve performs at most maxGens evolution steps and
\* at most maxGens + 1 stats registrations; with maxGens = 0 it performs no
\* evolution step, and the stats it returns (generations = 1, histories of
\* length 1) come from the seed generation only.
C11_EvolutionBudget ==
    ~IsSmallProblem =>
        /\ evolutions <= GenerationLimit
        /\ registrations <= GenerationLimit + 1
        /\ GenerationLimit = 0 =>
               /\ pc \in {"start", "loop", "done"}
               /\ evolutions = 0 /\ population = <<>> /\ lastGeneration = <<>>
               /\ pc = "done" =>
                      /\ registrations = 1
                      /\ solution.generations = Some(1)
                      /\ Len(solution.bestCostHistory) = 1
                      /\ Len(solution.worstCostHistory) = 1
                      /\ solution.bestCostGeneration = Some(1)
                      /\ solution.solution[1] \in Keys(evaluatedPopulation)

C11_Witness ==
    /\ pc = "done"
    /\ ~IsSmallProblem
    /\ cfg.maxGens = Some(0)
    /\ Len(solution.bestCostHistory) = 1

\* C12: across the successive stats registrations of one solve the recorded
\* bestCost never increases and the recorded worstCost never decreases.
C12_RecordedCostsMonotone ==
    [][(registrations >= 1 /\ registrations' > registrations) =>
           /\ solution.bestCost'[1] <= solution.bestCost[1]
           /\ solution.worstCost'[1] >= solution.worstCost[1]]_vars

\* a later generation whose own best is worse than the recorded bestCost, and
\* whose worst is worse than the seed generation's
C12_Witness ==
    /\ registrations >= 2
    /\ solution.bestCostHistory[registrations] > solution.bestCost[1]
    /\ solution.worstCostHistory[registrations] > solution.worstCostHistory[1]

\* c (positions 0-based) without the block c[a..b], and that block reversed
WithoutBlock(c, a, b) == SubSeq(c, 1, a) \o SubSeq(c, b + 2, Len(c))

ReversedBlock(c, a, b) == [i \in 1 .. b - a + 1 |-> c[b + 2 - i]]

\* c with the block c[a..b] removed and put back, reversed, at position d
BlockMoved(c, a, b, d) ==
    SubSeq(WithoutBlock(c, a, b), 1, d) \o ReversedBlock(c, a, b)
        \o SubSeq(WithoutBlock(c, a, b), d + 1, Len(WithoutBlock(c, a, b)))

SameGenes(c, d) ==
    /\ Len(c) = Len(d)
    /\ \A g \in Range(c) \cup Range(d) :
           Cardinality({i \in DOMAIN c : c[i] = g}) = Cardinality({i \in DOMAIN d : d[i] = g})

\* the positions _mutate may draw: all but a fixed origin's
MutableLoci == (IF HasFixedOrigin THEN 1 ELSE 0) .. N - 1

\* C13: for every chromosome c of a generation, every draw of two distinct
\* positions a < b (in either order) and every displacement position d,
\* _mutate returns c with the block c[a..b] removed and re-inserted, reversed
\* and contiguous, at d; the result has the length and the genes of c, and
\* the gene-count check does not throw.
C13_MutateMovesReversedBlock ==
    (pc = "evolve" /\ population = <<>> /\ Len(evaluatedPopulation) >= 2) =>
        \A e \in Range(evaluatedPopulation) :
        \A a, b \in MutableLoci :
            a < b =>
                \A d \in (IF HasFixedOrigin THEN 1 ELSE 0) .. N - (b - a + 1) :
                    /\ mutate(e[1], a, b, d) = BlockMoved(e[1], a, b, d)
                    /\ mutate(e[1], b, a, d) = BlockMoved(e[1], a, b, d)
                    /\ SameGenes(mutate(e[1], a, b, d), e[1])
                    /\ ~mutateThrows(e[1], a, b, d)
                    /\ ~mutateThrows(e[1], b, a, d)
                    /\ d \in displacementPositions(e[1], a, b)

\* the first mutant of an evolution step is a block of two or more genes of
\* its parent, reversed and moved to another position
C13_Witness ==
    /\ pc = "evolve"
    /\ Len(population) = 1
    /\ \E e \in Range(evaluatedPopulation) :
       \E a, b \in MutableLoci :
           /\ a < b
           /\ \E d \in (IF HasFixedOrigin THEN 1 ELSE 0) .. N - (b - a + 1) :
                  /\ d # a
                  /\ population[1] = BlockMoved(e[1], a, b, d)
                  /\ population[1] # e[1]

\* the child of `keeper` and `donor` as the claim describes it: the genes the
\* donor holds at the selected loci leave their positions in the keeper, and
\* fill the vacated positions, lowest first, in ascending order of locus
ExpectedChild(keeper, donor, loci) ==
    LET moved == {donor[l + 1] : l \in loci}
        vacated == {i \in DOMAIN keeper : keeper[i] \in moved}
        nthLocus(k) == CHOOSE l \in loci : Cardinality({m \in loci : m <= l}) = k
    IN  [i \in DOMAIN keeper |->
            IF i \in vacated
            THEN donor[nthLocus(Cardinality({j \in vacated : j <= i})) + 1]
            ELSE keeper[i]]

\* C14: for every ordered pair of tours (A, B) and every selection of
\* distinct loci, in every order of drawing them, _mate returns child A and
\* child B, each a tour without a hole: child A keeps every gene that B does
\* not hold at a selected locus where A has it, and the selected genes fill
\* the vacated positions, first hole first, in ascending-locus order of B;
\* child B likewise with the roles exchanged.
C14_MateFillsHolesInLocusOrder ==
    pc = "start" =>
        \A A \in PermutationSpace, B \in PermutationSpace :
        \A selectedLoci \in lociSelections :
            LET offsprings == mate(<<A, B>>, selectedLoci)
                childA == ExpectedChild(A, B, Range(selectedLoci))
                childB == ExpectedChild(B, A, Range(selectedLoci))
            IN  /\ Range(selectedLoci) \subseteq MutableLoci
                /\ offsprings[1] = childA
                /\ Range(offsprings) = {childA, childB}
                /\ \A c \in Range(offsprings) : IsTour(c) /\ Hole \notin Range(c)

\* a crossover pass admitted a child that differs from both parents, made
\* with two or more loci drawn in descending order
C14_Witness ==
    /\ pc = "evolve"
    /\ Len(population) >= 2
    /\ \E parents \in rouletteWheelSelection(evaluatedPopulation) :
       \E selectedLoci \in lociSelections :
           /\ Len(selectedLoci) >= 2 /\ selectedLoci[1] > selectedLoci[2]
           /\ population[Len(population)] \notin Range(parents)
           /\ population[Len(population)] =
                  ExpectedChild(parents[1], parents[2], Range(selectedLoci))
           /\ population[Len(population)] \notin Range(SubSeq(population, 1, mutationCount))

\* the mutation pool size as the claim states it
ExpectedMutationPool ==
    LET P == Min(ConfiguredPopulationSize, Cardinality(PermutationSpace))
        rate == IF cfg.mutationRate = Undefined THEN MUTATION_RATE ELSE cfg.mutationRate[1]
    IN  Max(1, (P * rate) \div 100)

\* C15: the mutation pool size the constructor derives is
\* max(1, floor(P * mutationRate / 100)), mutationRate = 0 included; while an
\* evolved population holds fewer chromosomes than the pool size, an
\* evolution step only adds mutants of the current generation to it, so
\* every evolution step produces at least one.
C15_MutationPoolSize ==
    [][/\ pc = "start" => mutationCount = ExpectedMutationPool /\ mutationCount >= 1
       /\ (pc = "evolve" /\ Len(evaluatedPopulation) >= 2
              /\ Len(population) < mutationCount) =>
              /\ pc' = "evolve"
              /\ \/ population' = population
                 \/ \E m \in MutatedChromosomes : population' = Append(population, m)
       /\ (pc = "evolve" /\ pc' = "loop") => Len(population) >= mutationCount]_vars

C15_Witness ==
    /\ pc = "evolve"
    /\ cfg.mutationRate = Some(0)
    /\ Len(population) = 1
    /\ population[1] \in MutatedChromosomes

\* every tour of the N nodes, whatever its first node
AllTours == {t \in [1 .. N -> 0 .. N - 1] : IsTour(t)}

IsSymmetricTable ==
    \A i, j \in 0 .. N - 1 : TableCost(i, j) = TableCost(j, i)

\* the evaluator gives every tour and its reverse the same fitness
ReverseInvariant ==
    \A c \in AllTours :
        evaluateChromosomeFitness(Reverse(c)) = evaluateChromosomeFitness(c)

\* C16, as stated: fitness(reverse(c)) = fitness(c) for all chromosomes c if
\* and only if the cost table is symmetric and returnToOrigin is true.
C16_ReverseInvariantIffSymmetricClosed ==
    pc = "start" => (ReverseInvariant <=> (IsSymmetricTable /\ ClosesTour))

\* C16, amended: if the cost table is symmetric, fitness(reverse(c)) =
\* fitness(c) for all chromosomes c, whether returnToOrigin is true or false;
\* with the asymmetric 3-node matrix the equality fails for some c, again for
\* either value of returnToOrigin.
C16_ReverseInvariantOnSymmetricTable ==
    pc = "start" =>
        /\ IsSymmetricTable => ReverseInvariant
        /\ cfg.costTable = Asymmetric3 => ~ReverseInvariant

\* an open tour over the symmetric matrix was evaluated, and its reverse,
\* another tour, has the same fitness
C16_Witness ==
    /\ pc = "loop"
    /\ IsSymmetricTable /\ ~ClosesTour
    /\ \E e \in Range(evaluatedPopulation) :
           /\ Reverse(e[1]) # e[1]
           /\ evaluateChromosomeFitness(Reverse(e[1])) = e[2]

\* C17: whenever Broker.exec constructs and runs the solver, the cost table
\* handed to it has exactly N * N entries for N = configs.dimension, the
\* entry at position i * N + j is the one for (origin i, destination j), and
\* every (i, i) entry has cost 0.
C17_SolverTableMatchesDimension ==
    solverInput # Undefined =>
        LET D == solverInput[1].dimension
            table == solverInput[1].costTable
        IN  /\ Len(table) = D * D
            /\ \A i, j \in 0 .. D - 1 :
                   /\ table[i * D + j + 1][1] = i
                   /\ table[i * D + j + 1][2] = j
                   /\ i = j => table[i * D + j + 1][3] = 0

\* the table the claim describes for the coordinates of the problem: row-major,
\* 0 on the diagonal, the provider's duration elsewhere
ExpectedCostTable ==
    LET M == Len(problem.coords) IN
    [k \in 1 .. M * M |->
        LET i == (k - 1) \div M
            j == (k - 1) % M
        IN  <<i, j, IF i = j THEN 0
                    ELSE NeshanLeg(problem.coords[i + 1], problem.coords[j + 1]).duration>>]

\* C18: whatever the order in which the N(N-1) fetches complete, once all of
\* them have succeeded calculateCostTable returns the same table: N * N
\* entries sorted by (origin, destination), entry (i, i) with cost 0 and entry
\* (i, j) with the provider's duration (not its distance) from i to j.
C18_TableIndependentOfOrder ==
    step = "solving" =>
        /\ costTable = ExpectedCostTable
        /\ solverInput[1].costTable = ExpectedCostTable
        /\ Len(costTable) = Len(problem.coords) * Len(problem.coords)

\* the answers arrived in the reverse of the order of dispatch
C18_Witness ==
    /\ step = "solving"
    /\ problem.order = "reverse"
    /\ Len(problem.coords) = 4
    /\ costTable = ExpectedCostTable

\* C19: if a fetch fails, calculateCostTable and exec fail with the provider
\* failure error and no table is returned: from the first failed answer on
\* exec is rejected, whatever the other fetches do, and a problem with a
\* failing pair never gets the solver constructed.
C19_FailureFailsConstruction ==
    /\ (step \in {"awaiting", "rejected"} /\ problem.failing \ inFlight # {}) =>
           /\ step = "rejected"
           /\ brokerError # Undefined
           /\ brokerError[1].message = "NESHAN_API_FAILED"
    /\ problem.failing # {} => solverInput = Undefined /\ step # "solving"
    /\ step = "rejected" => solverInput = Undefined

\* pair (0, 3) failed while other requests were still in flight and some
\* rows had been collected
C19_Witness ==
    /\ step = "rejected"
    /\ <<0, 3>> \in problem.failing \ inFlight
    /\ inFlight # {}
    /\ Len(costTable) > Len(problem.coords)
    /\ solverInput = Undefined

\* C20: at every moment during calculateCostTable at most 128 provider
\* requests are in flight.
C20_RequestsInFlightBounded == Cardinality(inFlight) <= 128

\* C21: after the first failed fetch every outstanding request is cancelled:
\* once the construction has failed, no request completes and runs its
\* success handler, which would push a row into the table.
C21_NoCompletionAfterFailure ==
    [][step = "rejected" => costTable' = costTable]_vars

\* the numeral a token of an instance file writes
ValueOf(token) == CHOOSE v \in 0 .. 9 : Digits[v + 1] = token

\* the node lines of the instance file: those between its NODE_COORD_SECTION
\* line and its EOF line
InstanceNodes ==
    LET first == CHOOSE k \in DOMAIN content : content[k] = <<"NODE_COORD_SECTION">>
        last  == CHOOSE k \in DOMAIN content : content[k] = <<"EOF">>
    IN  SelectSeq(SubSeq(content, first + 1, last - 1), LAMBDA line : line # <<>>)

\* a well-formed EUC_2D instance: the four keyed lines, then the node section
\* with lines numbered 1..N, then EOF and nothing else
WellFormedInstance ==
    /\ Len(content) >= 6
    /\ \E name, type, dimension \in {<<tok>> : tok \in {"toy", "TSP", "3", "4"}} :
          SubSeq(content, 1, 4) = <<<<"NAME:">> \o name, <<"TYPE:">> \o type,
                                    <<"DIMENSION:">> \o dimension,
                                    <<"EDGE_WEIGHT_TYPE:", "EUC_2D">>>>
    /\ Cardinality({k \in DOMAIN content : content[k] = <<"NODE_COORD_SECTION">>}) = 1
    /\ content[Len(content)] = <<"EOF">>
    /\ \A k \in 5 .. Len(content) - 1 :
          \/ content[k] = <<>>
          \/ content[k] = <<"NODE_COORD_SECTION">>
          \/ Len(content[k]) = 3 /\ \A t \in 1 .. 3 : \E d \in DOMAIN Digits : Digits[d] = content[k][t]
    /\ \A k \in DOMAIN InstanceNodes : Len(InstanceNodes[k]) = 3 /\ ValueOf(InstanceNodes[k][1]) = k

\* the squared Euclidean distance between nodes i and j of the instance
SquaredDistance(i, j) ==
    LET dx == ValueOf(InstanceNodes[j + 1][2]) - ValueOf(InstanceNodes[i + 1][2])
        dy == ValueOf(InstanceNodes[j + 1][3]) - ValueOf(InstanceNodes[i + 1][3])
    IN  dx * dx + dy * dy

\* the instance with nodes (0,0), (3,0), (0,4)
IsToyInstance ==
    InstanceNodes = <<<<"1", "0", "0">>, <<"2", "3", "0">>, <<"3", "0", "4">>>>

\* C22: for a well-formed EUC_2D instance whose node lines are numbered 1..N,
\* calculateStaticCostTable yields exactly one row for every ordered pair
\* (i, j) of [0, N) x [0, N), with cost 0 when i = j and the floor of the
\* Euclidean distance otherwise, equal in both directions; the toy instance
\* (0,0), (3,0), (0,4) gets the off-diagonal costs 3, 4 and 5.
C22_StaticTableIsTruncatedEuclidean ==
    (step = "tabled" /\ WellFormedInstance) =>
        LET n == Len(InstanceNodes)
            RowsOf(i, j) == {k \in DOMAIN costTable : costTable[k][1] = i /\ costTable[k][2] = j}
            Cost(i, j) == costTable[CHOOSE k \in RowsOf(i, j) : TRUE][3]
        IN  /\ Len(costTable) = n * n
            /\ \A i, j \in 0 .. n - 1 :
                  /\ Cardinality(RowsOf(i, j)) = 1
                  /\ i = j => Cost(i, j) = 0
                  /\ Cost(i, j) >= 0
                  /\ Cost(i, j) * Cost(i, j) <= SquaredDistance(i, j)
                  /\ (Cost(i, j) + 1) * (Cost(i, j) + 1) > SquaredDistance(i, j)
                  /\ Cost(i, j) = Cost(j, i)
            /\ IsToyInstance =>
                  /\ Cost(0, 1) = 3 /\ Cost(1, 0) = 3
                  /\ Cost(0, 2) = 4 /\ Cost(2, 0) = 4
                  /\ Cost(1, 2) = 5 /\ Cost(2, 1) = 5

C22_Witness ==
    /\ step = "tabled"
    /\ WellFormedInstance
    /\ IsToyInstance
    /\ Len(costTable) = 9

\* C23: for nnaPercentage in [0, 100], _generateInitialPopulation eventually
\* returns, under fair random draws, a population of exactly P pairwise
\* distinct chromosomes: a random chromosome that is already present is not
\* added and another one is generated, until the size is P and never more.
C23_SeedingReturnsExactlyP ==
    /\ [](/\ Len(initialPopulation) <= Min(ConfiguredPopulationSize, Cardinality(PermutationSpace))
          /\ \A i, j \in DOMAIN initialPopulation :
                initialPopulation[i] = initialPopulation[j] => i = j)
    /\ <>(/\ pc = "seeded"
          /\ Len(initialPopulation) = Min(ConfiguredPopulationSize, Cardinality(PermutationSpace))
          /\ \A i \in DOMAIN initialPopulation : initialPopulation[i] \in PermutationSpace)

\* a random chromosome was a duplicate of an NNA chromosome and has been
\* generated again
C23_Witness ==
    /\ pc = "random"
    /\ cfg.nnaPercentage = Some(50)
    /\ Len(initialPopulation) = 3
    /\ randomCount = 1
    /\ Len(randomPopulation) = 1
    /\ randomPopulation[1] \notin Range(initialPopulation)

\* C24: _rouletteWheelSelection, called on an evaluated population of at least
\* 2 chromosomes with positive fitness, returns exactly two distinct
\* chromosomes, both members of that population; a draw that returns the
\* chromosome already selected is not kept as the second one.
C24_RouletteReturnsTwoDistinctMembers ==
    (/\ pc = "evolve"
     /\ Len(evaluatedPopulation) >= 2
     /\ \A i \in DOMAIN evaluatedPopulation :
           evaluatedPopulation[i][2].num > 0 /\ evaluatedPopulation[i][2].den > 0) =>
        /\ rouletteWheelSelection(evaluatedPopulation) # {}
        /\ \A couple \in rouletteWheelSelection(evaluatedPopulation) :
              /\ Len(couple) = 2
              /\ couple[1] # couple[2]
              /\ \A k \in 1 .. 2 :
                    \E i \in DOMAIN evaluatedPopulation : evaluatedPopulation[i][1] = couple[k]

\* the crossover loop has selected parents and admitted an offspring
C24_Witness ==
    /\ pc = "evolve"
    /\ Len(evaluatedPopulation) >= 2
    /\ Len(population) > mutationCount

\* C25: a selection (_randomSelection, _rouletteWheelSelection) called on an
\* evaluated population of fewer than 2 members fails with an Internal (500)
\* error that is fatal to the solve: the promise rejects with it and nothing
\* is tried again; on at least 2 members _randomSelection returns a member
\* of the population.
C25_SelectionOnTinyPopulationIsFatal ==
    [][/\ (pc = "evolve" /\ Len(evaluatedPopulation) < 2) =>
              /\ pc' = "rejected"
              /\ rejection' # <<>>
              /\ rejection'[1].statusCode = <<500>>
              /\ solution' = solution
       /\ pc = "rejected" => pc' = "rejected" /\ rejection' = rejection
       /\ (pc = "evolve" /\ Len(evaluatedPopulation) >= 2) =>
              /\ randomSelection(evaluatedPopulation) # {}
              /\ \A selected \in randomSelection(evaluatedPopulation) :
                    \E i \in DOMAIN evaluatedPopulation : evaluatedPopulation[i][1] = selected
      ]_vars

C25_Witness ==
    /\ pc = "rejected"
    /\ Len(evaluatedPopulation) = 1
    /\ rejection # <<>>

\* C26: for a large problem and mutationRate in [0, 100], the population one
\* evolution step (_evolvePopulation) returns has exactly P pairwise distinct
\* chromosomes, and none of them is a member of the previous generation.
C26_EvolvedPopulationIsNew ==
    [][(pc = "evolve" /\ pc' = "loop" /\ ~IsSmallProblem) =>
          /\ Len(population) = ConfiguredPopulationSize
          /\ \A i, j \in DOMAIN population : population[i] = population[j] => i = j
          /\ \A i \in DOMAIN population :
                \A k \in DOMAIN evaluatedPopulation : evaluatedPopulation[k][1] # population[i]
      ]_vars

\* a second evolution step has returned on a large problem
C26_Witness ==
    /\ pc = "loop"
    /\ ~IsSmallProblem
    /\ evolutions = 2
    /\ Len(population) = ConfiguredPopulationSize

\* C27: for every valid configuration of a large problem (N >= 3, permutation
\* space > P >= 2, finite maxGens and maxChrAge) every evolution step fills
\* its population to P and returns: no reachable state is inside the mutation
\* loop or the crossover loop of _evolvePopulation without any admissible
\* chromosome (a tour that is neither in the new population nor in the
\* previous generation) left to add.
C27_EvolveLoopsCanProgress ==
    (/\ pc = "evolve"
     /\ ConfiguredPopulationSize >= 2
     /\ Len(population) < ConfiguredPopulationSize
     /\ ~IsSmallProblem) =>
        \E tour \in PermutationSpace :
            /\ \A i \in DOMAIN population : population[i] # tour
            /\ \A k \in DOMAIN evaluatedPopulation : evaluatedPopulation[k][1] # tour

\* C28: in every NNA chromosome, after the optional fixed origin and the
\* random start node, each further gene is the unvisited node with minimum
\* cost from the current tail in the tail's row of the cost table, the first
\* such node in scan order on ties, for every table with non-negative costs,
\* zero-cost off-diagonal entries included.
C28_NnaTakesNearestUnvisited ==
    pc = "nna" =>
        \A c \in DOMAIN initialPopulation :
            LET chr   == initialPopulation[c]
                start == IF HasFixedOrigin THEN 2 ELSE 1
            IN  \A k \in start .. Len(chr) - 1 :
                    LET visited   == {chr[i] : i \in 1 .. k}
                        unvisited == (0 .. N - 1) \ visited
                        least     == CHOOSE d \in unvisited :
                                         \A e \in unvisited :
                                             \/ TableCost(chr[k], d) < TableCost(chr[k], e)
                                             \/ TableCost(chr[k], d) = TableCost(chr[k], e) /\ d <= e
                    IN  chr[k + 1] = least

\* C29: bestCostGeneration is the generation at which the current bestCost
\* was first observed: a registration moves it only when the generation's
\* best cost is strictly lower than every best cost registered before, and
\* solution changes only at those registrations; worstCostGeneration moves
\* only on a strictly higher worst cost.
C29_RecordGenerationsAreFirstObservations ==
    [][registrations' = registrations + 1 =>
          LET best  == solution'.bestCostHistory
              worst == solution'.worstCostHistory
              last  == registrations'
          IN  /\ Len(best) = last /\ Len(worst) = last
              /\ solution'.bestCostGeneration =
                    <<CHOOSE g \in 1 .. last :
                          /\ \A k \in 1 .. last : best[g] <= best[k]
                          /\ \A k \in 1 .. g - 1 : best[k] > best[g]>>
              /\ solution'.worstCostGeneration =
                    <<CHOOSE g \in 1 .. last :
                          /\ \A k \in 1 .. last : worst[g] >= worst[k]
                          /\ \A k \in 1 .. g - 1 : worst[k] < worst[g]>>
              /\ solution'.bestCostGeneration # solution.bestCostGeneration
                    <=> \A k \in 1 .. last - 1 : best[last] < best[k]
              /\ solution'.worstCostGeneration # solution.worstCostGeneration
                    <=> \A k \in 1 .. last - 1 : worst[last] > worst[k]
              /\ solution'.solution # solution.solution
                    => solution'.bestCostGeneration # solution.bestCostGeneration
      ]_vars

\* the best cost was improved in generation 2, and generation 3 equalled the
\* worst cost of generation 1 without moving worstCostGeneration
C29_Witness ==
    /\ registrations = 3
    /\ solution.bestCostGeneration = <<2>>
    /\ solution.worstCostGeneration = <<1>>
    /\ solution.worstCostHistory[3] = solution.worstCostHistory[1]

\* C30: the generation counter is 0 before seeding, seeding increments it
\* exactly once so that the first registration records generation 1, every
\* evolution step increments it exactly once, after survival selection and
\* before the step's registration (which therefore records the new count),
\* and it never decreases.
C30_GenerationCounter ==
    [][/\ pc = "start" => generationCount = 0
       /\ generationCount' >= generationCount
       /\ generationCount' <= generationCount + 1
       /\ (pc = "start" /\ pc' # "start") =>
              /\ generationCount' = 1
              /\ registrations' = 1
              /\ solution'.generations = <<1>>
       /\ evolutions' = evolutions + 1 =>
              /\ generationCount' = generationCount + 1
              /\ registrations' = registrations + 1
              /\ solution'.generations = <<generationCount'>>
              /\ \A i \in DOMAIN evaluatedPopulation' :
                     \/ \E k \in DOMAIN population : population[k] = evaluatedPopulation'[i][1]
                     \/ \E k \in DOMAIN evaluatedPopulation :
                            evaluatedPopulation[k][1] = evaluatedPopulation'[i][1]
       /\ generationCount' # generationCount =>
              (pc = "start" \/ evolutions' = evolutions + 1)
      ]_vars

C30_Witness ==
    /\ evolutions = 2
    /\ generationCount = 3
    /\ solution.generations = <<3>>

\* the draws _mutate can make on a chromosome of N genes: two distinct loci
\* and a displacement position in what is left without the part between them
MutateDraws ==
    LET lo == IF HasFixedOrigin THEN 1 ELSE 0
    IN  {<<a, b, d>> \in (lo .. N - 1) \X (lo .. N - 1) \X (lo .. N) :
            /\ a # b
            /\ d <= N - ((IF a < b THEN b - a ELSE a - b) + 1)}

\* C31 as stated: with a fixed origin and returnToOrigin = true there are a
\* chromosome and a draw of loci and displacement position for which _mutate
\* returns the input chromosome unchanged (mutation can be a no-op).
C31_MutationCanBeNoOp ==
    (pc = "start" /\ HasFixedOrigin /\ ClosesTour) =>
        \E chr \in PermutationSpace : \E draw \in MutateDraws :
            mutate(chr, draw[1], draw[2], draw[3]) = chr

\* C31, amended: _mutate never returns its input: for every chromosome and
\* every draw of two distinct loci and a displacement position the result
\* differs from the input, with or without a fixed origin, whatever
\* returnToOrigin is.
C31_MutationAlwaysChanges ==
    pc = "start" =>
        \A chr \in PermutationSpace : \A draw \in MutateDraws :
            mutate(chr, draw[1], draw[2], draw[3]) # chr

\* the mutation loop has added a mutant, fixed origin and returnToOrigin = true
C31_Witness ==
    /\ pc = "evolve"
    /\ HasFixedOrigin
    /\ ClosesTour
    /\ Len(population) = 1
    /\ \A k \in DOMAIN evaluatedPopulation : evaluatedPopulation[k][1] # population[1]

\* C32: calculateCostTable dispatches all N(N-1) off-diagonal provider
\* requests before it awaits any of them: when the await begins every
\* off-diagonal pair has its request out and none has been answered, and no
\* request is issued afterwards, upon the completion of another.
C32_AllDispatchedBeforeAwait ==
    [][/\ (step = "coords" /\ step' = "awaiting") =>
              LET M == Len(problem.coords)
              IN  /\ inFlight' = {p \in (0 .. M - 1) \X (0 .. M - 1) : p[1] # p[2]}
                  /\ Cardinality(inFlight') = M * (M - 1)
                  /\ \A k \in DOMAIN costTable' : costTable'[k][1] = costTable'[k][2]
       /\ step \in {"awaiting", "rejected"} => inFlight' \subseteq inFlight
      ]_vars

\* 4 coordinates: the 12 requests are out and the first answers are in
C32_Witness ==
    /\ step = "awaiting"
    /\ Len(problem.coords) = 4
    /\ Cardinality(inFlight) = 10
    /\ Len(costTable) = 6

C34_InvalidCoordinateIsBadInput ==
    (/\ problem.entry = "service"
     /\ problem.hasApiKey
     /\ problem.apiName = "neshan"
     /\ \E k \in DOMAIN problem.coords : problem.coords[k] <= 0) =>
        /\ \A p \in inFlight :
              problem.coords[p[1] + 1] > 0 /\ problem.coords[p[2] + 1] > 0
        /\ step \in {"coords", "rejected"}
        /\ step = "rejected" => brokerError # <<>> /\ brokerError[1].statusCode = <<400>>

SectionKeys == {"NODE_COORD_SECTION", "EDGE_WEIGHT_SECTION", "DISPLAY_DATA_SECTION", "EOF"}

DirectiveKeys == SectionKeys \cup {"NAME:", "TYPE:", "DIMENSION:", "EDGE_WEIGHT_TYPE:"}

\* the most recent section directive above line k of the file, "" if none
LastSection(k) ==
    LET above == {m \in 1 .. k - 1 : content[m] # <<>> /\ content[m][1] \in SectionKeys}
    IN  IF above = {} THEN ""
        ELSE content[CHOOSE m \in above : \A o \in above : o <= m][1]

\* C36: in parseTSPLIB a line that is no directive is recorded as a node
\* coordinate exactly when the most recent section directive above it is
\* NODE_COORD_SECTION (directive lines and blank lines record nothing); the
\* recorded node index is the line's 1-based index minus 1; readingNodes and
\* readingEdges are never both set.
C36_NodesOnlyInsideNodeSection ==
    [][(step = "parsing" /\ lineNo' = lineNo + 1) =>
          LET line == content[lineNo]
              recorded == Len(data'.nodeCoordinates) = Len(data.nodeCoordinates) + 1
              kept == data'.nodeCoordinates = data.nodeCoordinates
          IN  /\ recorded \/ kept
              /\ (line = <<>> \/ line[1] \in DirectiveKeys) => kept
              /\ (line # <<>> /\ line[1] \notin DirectiveKeys) =>
                    /\ recorded <=> LastSection(lineNo) = "NODE_COORD_SECTION"
                    /\ recorded =>
                          /\ SubSeq(data'.nodeCoordinates, 1, Len(data.nodeCoordinates))
                                = data.nodeCoordinates
                          /\ data'.nodeCoordinates[Len(data'.nodeCoordinates)].nodeIndex
                                = ValueOf(line[1]) - 1
              /\ ~(readingNodes /\ readingEdges)
              /\ ~(readingNodes' /\ readingEdges')]_vars

\* a file with an edge section, a node section, a display section and a line
\* after EOF has been parsed: only the two lines of the node section are nodes
C36_Witness ==
    /\ step = "parsed"
    /\ Len(content) = 14
    /\ LastSection(Len(content)) = "EOF"
    /\ content[Len(content)] = <<"3", "0", "4">>
    /\ Len(data.nodeCoordinates) = 2
    /\ data.nodeCoordinates[1].nodeIndex = 0
    /\ data.nodeCoordinates[2].nodeIndex = 1
    /\ Len(data.edgeWeightMatrix) = 4

\* the least and the greatest entry of a history that is not empty
MinOf(history) == CHOOSE c \in Range(history) : \A d \in Range(history) : c <= d

MaxOf(history) == CHOOSE c \in Range(history) : \A d \in Range(history) : d <= c

\* C37: after every stats registration of a solve, bestCostHistory and
\* worstCostHistory each have exactly `generations` entries, one per
\* registration; bestCost is the minimum of bestCostHistory and worstCost the
\* maximum of worstCostHistory; 1 <= bestCostGeneration <= generations; and
\* bestCost <= worstCost.
C37_StatsAgreeWithHistories ==
    registrations >= 1 =>
        /\ solution.generations # Undefined
        /\ Len(solution.bestCostHistory) = solution.generations[1]
        /\ Len(solution.worstCostHistory) = solution.generations[1]
        /\ solution.generations[1] = registrations
        /\ solution.bestCost = Some(MinOf(solution.bestCostHistory))
        /\ solution.worstCost = Some(MaxOf(solution.worstCostHistory))
        /\ solution.bestCostGeneration # Undefined
        /\ 1 <= solution.bestCostGeneration[1]
        /\ solution.bestCostGeneration[1] <= solution.generations[1]
        /\ solution.bestCost[1] <= solution.worstCost[1]

\* three generations are registered, the best cost fell after the first and
\* the worst cost rose after the first
C37_Witness ==
    /\ registrations = 3
    /\ pc = "loop"
    /\ solution.bestCostHistory[1] > solution.bestCost[1]
    /\ solution.worstCostHistory[1] < solution.worstCost[1]
    /\ solution.bestCostGeneration[1] > 1

\* C38: whenever solve resolves, the reported solution is a valid tour (with
\* the fixed origin first, if one is configured) that was a member of the
\* generation registered as bestCostGeneration, and the evaluator's cost of
\* that tour is the reported bestCost.  Membership is carried from the
\* registration that set bestCostGeneration: that registration takes the tour
\* from the generation it registers, and no other step changes the tour, the
\* cost or the generation.
C38_SolutionIsBestGenerationsTour ==
    [][/\ registrations' = registrations + 1 =>
             IF solution'.bestCostGeneration # solution.bestCostGeneration
             THEN /\ solution'.bestCostGeneration = Some(generationCount')
                  /\ \E k \in DOMAIN evaluatedPopulation' :
                        /\ evaluatedPopulation'[k][1] = solution'.solution[1]
                        /\ CostOf(evaluatedPopulation'[k][2]) = solution'.bestCost[1]
             ELSE /\ solution'.solution = solution.solution
                  /\ solution'.bestCost = solution.bestCost
       /\ registrations' = registrations =>
             /\ solution'.solution = solution.solution
             /\ solution'.bestCost = solution.bestCost
             /\ solution'.bestCostGeneration = solution.bestCostGeneration
       /\ pc' = "done" =>
             /\ solution'.solution # Undefined
             /\ IsTour(strToChr(solution'.solution[1]))
             /\ HasFixedOrigin => strToChr(solution'.solution[1])[1] = cfg.fixedOriginIndex[1]
             /\ solution'.bestCost =
                   Some(CostOf(evaluateChromosomeFitness(strToChr(solution'.solution[1]))))
             /\ solution'.bestCostGeneration[1] \in 1 .. solution'.generations[1]
             /\ solution'.bestCostHistory[solution'.bestCostGeneration[1]]
                   = solution'.bestCost[1]
      ]_vars

\* solve resolved with the tour of the second generation, which the third
\* generation did not improve and does not hold any more
C38_Witness ==
    /\ pc = "done"
    /\ registrations = 3
    /\ solution.bestCostGeneration = Some(2)
    /\ HasFixedOrigin
    /\ \A k \in DOMAIN evaluatedPopulation : evaluatedPopulation[k][1] # solution.solution[1]

-----------------------------------------------------------------------------
(* quickSort.ts followed call by call.  The array is sorted in place; the  *)
(* pending calls are kept innermost first, so that the left part is sorted *)
(* completely before the right part is entered, as the recursion does.     *)

\* the longest array quickSort is followed on
MaxSortLen == 5

\* the fitness values of the arrays: 1/1, 1/2 and 1/3
SortFitnesses == {[num |-> 1, den |-> d] : d \in 1 .. 3}

\* [...population.entries()]: distinct chromosomes, fitness values that may
\* repeat; the arrays of every length from 0 to MaxSortLen
SortInputs ==
    UNION {{[k \in 1 .. n |-> <<chrToStr(<<k - 1>>), f[k]>>] : f \in [1 .. n -> SortFitnesses]} :
           n \in 0 .. MaxSortLen}

\* quickSort(source) is called with left = 0 and right = source.length - 1
SortInit ==
    /\ sortInput \in SortInputs
    /\ sortArray = sortInput
    /\ sortCalls = <<<<1, Len(sortInput)>>>>
    /\ sortResult = Undefined
    /\ cfg = Undefined
    /\ pc = "idle"
    /\ generationCount = 0
    /\ evaluatedPopulation = <<>>
    /\ lastGeneration = <<>>
    /\ population = <<>>
    /\ solution = NoSolution
    /\ registrations = 0
    /\ evolutions = 0
    /\ rejection = Undefined
    /\ problem = Undefined
    /\ step = "sorting"
    /\ inFlight = {}
    /\ costTable = <<>>
    /\ solverInput = Undefined
    /\ brokerError = Undefined
    /\ SeedIdle
    /\ ParserIdle

\* the body of one call quickSort(source, left, right) up to its recursive
\* calls: partition, then the left part if it has two entries or more, then
\* the right part
QuickSortCall ==
    /\ step = "sorting"
    /\ sortCalls # <<>>
    /\ LET left  == sortCalls[1][1]
           right == sortCalls[1][2]
       IN  IF Len(sortArray) > 1
           THEN LET p == partition(sortArray, left, right)
                IN  /\ sortArray' = SubSeq(p.source, 1, Len(p.source))
                    /\ sortCalls' =
                          (IF left < p.index - 1 THEN <<<<left, p.index - 1>>>> ELSE <<>>)
                            \o (IF p.index < right THEN <<<<p.index, right>>>> ELSE <<>>)
                            \o Tail(sortCalls)
           ELSE /\ sortCalls' = Tail(sortCalls)
                /\ UNCHANGED sortArray
    /\ UNCHANGED <<sortInput, sortResult>>
    /\ UNCHANGED <<problem, step, inFlight, costTable, solverInput, brokerError>>
    /\ UNCHANGED <<gaVars, seedVars, parserVars>>

\* the outermost call returns source
QuickSortReturn ==
    /\ step = "sorting"
    /\ sortCalls = <<>>
    /\ sortResult' = Some(sortArray)
    /\ step' = "sorted"
    /\ UNCHANGED <<sortInput, sortArray, sortCalls>>
    /\ UNCHANGED <<problem, inFlight, costTable, solverInput, brokerError>>
    /\ UNCHANGED <<gaVars, seedVars, parserVars>>

SortNext ==
    \/ QuickSortCall
    \/ QuickSortReturn

SortSpec == SortInit /\ [][SortNext]_vars

\* quickSort runs synchronously: a call that has been entered takes its next
\* step
SortFairSpec == SortSpec /\ WF_vars(SortNext)

\* the entries of `out` are the entries of `in`, each as often
IsPermutationOf(out, in) ==
    /\ Len(out) = Len(in)
    /\ \A e \in Range(in) \cup Range(out) :
          Cardinality({k \in DOMAIN out : out[k] = e}) = Cardinality({k \in DOMAIN in : in[k] = e})

\* C39: quickSort terminates on every array of (chromosome, fitness) pairs,
\* the empty one, the singletons and those with repeated fitness values
\* included, and returns a permutation of its input in non-decreasing order of
\* fitness: its first entry has the least fitness and its last the greatest.
\* The array returned call by call is the one the operator quickSort gives.
C39_QuickSortSortsAndTerminates ==
    /\ [](sortResult # Undefined =>
            LET out == sortResult[1]
            IN  /\ IsPermutationOf(out, sortInput)
                /\ \A k \in 1 .. Len(out) - 1 : ~FitnessLess(out[k + 1][2], out[k][2])
                /\ \A k \in DOMAIN out :
                      /\ ~FitnessLess(out[k][2], out[1][2])
                      /\ ~FitnessLess(out[Len(out)][2], out[k][2])
                /\ out = quickSort(sortInput))
    /\ [](sortCalls # <<>> =>
            /\ 1 <= sortCalls[1][1]
            /\ sortCalls[1][2] <= Len(sortArray)
            /\ Len(sortArray) > 1 => sortCalls[1][1] < sortCalls[1][2])
    /\ <>(sortResult # Undefined)

\* an array of five entries with a repeated fitness value that was not in
\* order has been returned sorted
C39_Witness ==
    /\ sortResult # Undefined
    /\ Len(sortInput) = 5
    /\ sortInput[1][2] = sortInput[4][2]
    /\ FitnessLess(sortInput[3][2], sortInput[2][2])
    /\ FitnessLess(sortInput[5][2], sortInput[1][2])
    /\ sortResult[1] # sortInput

====
